---- MODULE Spec2Model ----
(***************************************************************************)
(* minibson / microbson: a BSON builder (minibson::Document, Array) and a  *)
(* zero-copy reader (microbson::Document, Array, Node).                    *)
(*                                                                         *)
(* Bytes are integers 0..255.  A buffer is a sequence of bytes; the C++    *)
(* offset o is element o+1 of the sequence.  Strings, keys and binaries    *)
(* are sequences of bytes.                                                 *)
(***************************************************************************)
EXTENDS Integers, Sequences, FiniteSets, TLC

VARIABLES
  doc,     \* the builder: a minibson::Document (its doc_ map)
  mem,     \* the caller's byte buffer, <<>> while there is none
  reader,  \* the microbson::Document view over mem
  res,     \* the last operation and its outcome
  vst      \* the position of a running Document::valid()

vars == <<doc, mem, reader, res, vst>>

----------------------------------------------------------------------------
(* Sizes, microbson.hpp:12-26 *)
SIZE_OF_BSON_TYPE == 1
SIZE_OF_ZERO_BYTE == 1
SIZE_OF_BSON_SIZE == 4
SIZE_OF_BSON_SUBTYPE == 1
SIZE_OF_BOOLEAN_VALUE == 1
SIZE_OF_INT32_VALUE == 4
SIZE_OF_INT64_VALUE == 8
SIZE_OF_DOUBLE_VALUE == 8
SIZE_OF_NULL_VALUE == 0

MINIMAL_SIZE_OF_BSON_DOCUMENT == SIZE_OF_BSON_SIZE + SIZE_OF_ZERO_BYTE
MINIMAL_SIZE_OF_BSON_NODE == SIZE_OF_BSON_TYPE + 1 + SIZE_OF_ZERO_BYTE
MINIMAL_SIZE_OF_BSON_NULL_NODE == 3
MINIMAL_SIZE_OF_BSON_INT32_NODE == MINIMAL_SIZE_OF_BSON_NODE + SIZE_OF_INT32_VALUE
MINIMAL_SIZE_OF_BSON_INT64_NODE == MINIMAL_SIZE_OF_BSON_NODE + SIZE_OF_INT64_VALUE
MINIMAL_SIZE_OF_BSON_DOUBLE_NODE == MINIMAL_SIZE_OF_BSON_NODE + SIZE_OF_DOUBLE_VALUE
MINIMAL_SIZE_OF_BSON_BOOLEAN_NODE == MINIMAL_SIZE_OF_BSON_NODE + SIZE_OF_BOOLEAN_VALUE
MINIMAL_SIZE_OF_BSON_STRING_NODE == MINIMAL_SIZE_OF_BSON_NODE + 1 + SIZE_OF_ZERO_BYTE
MINIMAL_SIZE_OF_BSON_BINARY_NODE ==
  MINIMAL_SIZE_OF_BSON_NODE + SIZE_OF_BSON_SIZE + SIZE_OF_ZERO_BYTE
MINIMAL_SIZE_OF_BSON_DOCUMENT_NODE ==
  MINIMAL_SIZE_OF_BSON_NODE + MINIMAL_SIZE_OF_BSON_DOCUMENT

(* enum bson::NodeType, microbson.hpp:82-93 *)
double_node == 1
string_node == 2
document_node == 3
array_node == 4
binary_node == 5
boolean_node == 8
null_node == 10
int32_node == 16
int64_node == 18
unknown_node == 255

(* The tag standing for bson::Scalar (microbson.hpp:95), which has no     *)
(* node_type_code: a number that is no wire code.                          *)
Scalar == -1

NodeTypes ==
  {double_node, string_node, document_node, array_node, binary_node,
   boolean_node, null_node, int32_node, int64_node}

----------------------------------------------------------------------------
(* Integer and floating point object representations (little endian).      *)

(* the element of the one-element set S.  A result that is used more than  *)
(* once is bound by x \in {result}, which computes it once                 *)
The(S) == CHOOSE y \in S : TRUE

RECURSIVE Pow2(_)
Pow2(n) == IF n = 0 THEN 1 ELSE 2 * Pow2(n - 1)

(* the four bytes of an int32 object, two's complement *)
Int32Bytes(n) ==
  << n % 256, (n \div 256) % 256, (n \div 65536) % 256, (n \div 16777216) % 256 >>

(* the int32 whose object representation is the four bytes b *)
BytesInt32(b) ==
  b[1] + 256 * b[2] + 65536 * b[3]
    + 16777216 * (IF b[4] >= 128 THEN b[4] - 256 ELSE b[4])

(* An int64 is the record [hi, lo] of its two 32-bit words, each read as   *)
(* an int32.  Int64Of(n) is the int64 with the value n of the int32 range. *)
Int64Of(n) == [lo |-> n, hi |-> IF n < 0 THEN -1 ELSE 0]

(* the eight bytes of an int64 object *)
Int64Bytes(v) == Int32Bytes(v.lo) \o Int32Bytes(v.hi)

(* the int64 whose object representation is the eight bytes b *)
BytesInt64(b) == [lo |-> BytesInt32(SubSeq(b, 1, 4)), hi |-> BytesInt32(SubSeq(b, 5, 8))]

(* A double is the record of its IEEE-754 binary64 fields: sign, biased    *)
(* exponent, the upper 20 bits of the fraction, and the lower 32 bits of   *)
(* the fraction as four bytes.                                             *)
DoubleBytes(d) ==
  LET hi == d.exp * 1048576 + d.hi20
  IN  d.lo32 \o << hi % 256, (hi \div 256) % 256, (hi \div 65536) % 256,
                  (hi \div 16777216) + (IF d.neg THEN 128 ELSE 0) >>

BytesDouble(b) ==
  LET top == IF b[8] >= 128 THEN b[8] - 128 ELSE b[8]
      hi  == b[5] + 256 * b[6] + 65536 * b[7] + 16777216 * top
  IN  [neg |-> b[8] >= 128, exp |-> hi \div 1048576, hi20 |-> hi % 1048576,
       lo32 |-> SubSeq(b, 1, 4)]

(* floor(log2(m)) for 1 <= m < 2^20 *)
RECURSIVE Log2(_)
Log2(m) == IF m < 2 THEN 0 ELSE 1 + Log2(m \div 2)

(* the number whose binary digits are bs[1..n], most significant first *)
RECURSIVE BitsValue(_, _)
BitsValue(bs, n) == IF n = 0 THEN 0 ELSE 2 * BitsValue(bs, n - 1) + bs[n]

(* the low k bits of n, least significant first *)
RECURSIVE LowBits(_, _)
LowBits(n, k) == IF k = 0 THEN <<>> ELSE <<n % 2>> \o LowBits(n \div 2, k - 1)

(* the 64 bits of the int64 v, two's complement, least significant first *)
Int64Bits(v) ==
  LowBits(v.lo % 65536, 16) \o LowBits((v.lo \div 65536) % 65536, 16)
    \o LowBits(v.hi % 65536, 16) \o LowBits((v.hi \div 65536) % 65536, 16)

(* the 64 bits of |v|: negation keeps the bits up to the lowest 1 and      *)
(* inverts those above it                                                  *)
MagnitudeBits(v) ==
  The({
    IF v.hi >= 0 THEN bits
    ELSE The({[k \in 1..64 |-> IF k <= low THEN bits[k] ELSE 1 - bits[k]] :
                low \in {CHOOSE k \in 1..64 :
                           bits[k] = 1 /\ \A j \in 1..(k - 1) : bits[j] = 0}}) :
    bits \in {Int64Bits(v)}})

(* the double with sign neg, unbiased exponent e and the 52 fraction bits  *)
(* frac (most significant first), plus one unit in the last place if up    *)
(* is 1; c[n] is the carry into byte n of the fraction, c[5] the carry     *)
(* into its upper 20 bits                                                  *)
RoundedDouble(neg, e, frac, up) ==
  The({
    The({
      IF hi = Pow2(20)
        THEN [neg |-> neg, exp |-> 1023 + e + 1, hi20 |-> 0, lo32 |-> <<0, 0, 0, 0>>]
        ELSE [neg |-> neg, exp |-> 1023 + e, hi20 |-> hi,
              lo32 |-> <<(b[1] + c[1]) % 256, (b[2] + c[2]) % 256,
                         (b[3] + c[3]) % 256, (b[4] + c[4]) % 256>>] :
      hi \in {BitsValue(SubSeq(frac, 1, 20), 20) + c[5]}}) :
    b \in {<<BitsValue(SubSeq(frac, 45, 52), 8), BitsValue(SubSeq(frac, 37, 44), 8),
             BitsValue(SubSeq(frac, 29, 36), 8), BitsValue(SubSeq(frac, 21, 28), 8)>>},
    c \in {[n \in 1..5 |->
              IF up = 1 /\ \A j \in (53 - 8 * (n - 1))..52 : frac[j] = 1
                THEN 1 ELSE 0]}})

(* static_cast<double>(v) for any int64 v, bit by bit: the leading 1 of    *)
(* the magnitude (bit e) gives the exponent, the 52 bits below it the      *)
(* fraction, rounded to nearest, ties to even, on the bits that do not fit *)
WideToDouble(v) ==
  The({
    IF \A k \in 1..64 : mag[k] = 0
      THEN [neg |-> FALSE, exp |-> 0, hi20 |-> 0, lo32 |-> <<0, 0, 0, 0>>]
    ELSE The({
      RoundedDouble(v.hi < 0, e,
        [j \in 1..52 |-> IF e - j >= 0 THEN mag[e - j + 1] ELSE 0],
        IF /\ e >= 53
           /\ mag[e - 53 + 1] = 1
           /\ \/ mag[e - 52 + 1] = 1
              \/ \E k \in 1..(e - 53) : mag[k] = 1
          THEN 1 ELSE 0) :
      e \in {(CHOOSE k \in 1..64 :
                mag[k] = 1 /\ \A j \in (k + 1)..64 : mag[j] = 0) - 1}}) :
    mag \in {MagnitudeBits(v)}})

(* static_cast<double>(n) for an int32 n; exact *)
IntToDouble(n) ==
  LET a == IF n < 0 THEN -n ELSE n
      e == Log2(a)
  IN  IF n = 0
        THEN [neg |-> FALSE, exp |-> 0, hi20 |-> 0, lo32 |-> <<0, 0, 0, 0>>]
        ELSE IF -Pow2(20) < n /\ n < Pow2(20)
          THEN [neg |-> n < 0, exp |-> 1023 + e,
                hi20 |-> (a - Pow2(e)) * Pow2(20 - e), lo32 |-> <<0, 0, 0, 0>>]
          ELSE WideToDouble(Int64Of(n))

(* static_cast<double>(v) for an int64 v *)
Int64ToDouble(v) ==
  IF v = Int64Of(v.lo) THEN IntToDouble(v.lo) ELSE WideToDouble(v)

----------------------------------------------------------------------------
(* Strings *)

(* std::strlen: index of the first NUL of s, or Len(s) *)
RECURSIVE CStrLen(_)
CStrLen(s) == IF s = <<>> \/ Head(s) = 0 THEN 0 ELSE 1 + CStrLen(Tail(s))

(* the bytes std::strcpy writes for s.c_str(): up to and with the first NUL *)
StrcpyBytes(s) == SubSeq(s, 1, CStrLen(s)) \o <<0>>

(* std::to_string(i) for 0 <= i < 100 *)
to_string(i) == IF i < 10 THEN <<48 + i>> ELSE <<48 + (i \div 10), 48 + (i % 10)>>

(* std::string operator< : lexicographic on unsigned bytes *)
RECURSIVE KeyLess(_, _)
KeyLess(a, b) ==
  IF b = <<>> THEN FALSE
  ELSE IF a = <<>> THEN TRUE
  ELSE IF Head(a) # Head(b) THEN Head(a) < Head(b)
  ELSE KeyLess(Tail(a), Tail(b))

(* iteration order of std::map<std::string, ...> over the key set S *)
RECURSIVE SortedKeys(_)
SortedKeys(S) ==
  IF S = {} THEN <<>>
  ELSE LET k == CHOOSE x \in S : \A y \in S \ {x} : KeyLess(x, y)
       IN  <<k>> \o SortedKeys(S \ {k})

----------------------------------------------------------------------------
(* minibson: the builder value tree.  A NodeValue is [type, val]: val is a *)
(* double record, an int32, an int64 record, a BOOLEAN, <<>> for null, a   *)
(* byte sequence (string, binary), a function from keys to NodeValues      *)
(* (Document::doc_) or a sequence of NodeValues (Array::arr_).             *)

Node(t, v) == [type |-> t, val |-> v]

RECURSIVE NodeGetSerializedSize(_), DocSizeFrom(_, _), ArrSizeFrom(_, _)

(* a faulty variant of NodeValueT<std::string>::getSerializedSize that     *)
(* leaves the string's final 0x00 out of the count; C12 must tell it from  *)
(* the real one                                                            *)
NodeGetSerializedSizeStringNoNul(n) ==
  CASE n.type = string_node   -> SIZE_OF_BSON_SIZE + Len(n.val)
    [] n.type = document_node -> DocSizeFrom(n.val, SortedKeys(DOMAIN n.val))
    [] n.type = array_node    -> ArrSizeFrom(n.val, 1)
    [] n.type = binary_node   -> SIZE_OF_BSON_SIZE + SIZE_OF_BSON_SUBTYPE + Len(n.val)
    [] n.type = boolean_node  -> SIZE_OF_BOOLEAN_VALUE
    [] n.type = null_node     -> SIZE_OF_NULL_VALUE
    [] n.type = int32_node    -> 4
    [] n.type = int64_node    -> 8
    [] n.type = double_node   -> 8

(* NodeValueT<T>::getSerializedSize, Binary::getSerializedSize *)
NodeGetSerializedSize(n) ==
  CASE n.type = string_node   -> SIZE_OF_BSON_SIZE + Len(n.val) + SIZE_OF_ZERO_BYTE
    [] n.type = document_node -> DocSizeFrom(n.val, SortedKeys(DOMAIN n.val))
    [] n.type = array_node    -> ArrSizeFrom(n.val, 1)
    [] n.type = binary_node   -> SIZE_OF_BSON_SIZE + SIZE_OF_BSON_SUBTYPE + Len(n.val)
    [] n.type = boolean_node  -> SIZE_OF_BOOLEAN_VALUE
    [] n.type = null_node     -> SIZE_OF_NULL_VALUE
    [] n.type = int32_node    -> 4
    [] n.type = int64_node    -> 8
    [] n.type = double_node   -> 8

(* Document::getSerializedSize: the loop over doc_ from the keys ks on *)
DocSizeFrom(d, ks) ==
  IF ks = <<>> THEN SIZE_OF_BSON_SIZE + SIZE_OF_ZERO_BYTE
  ELSE SIZE_OF_BSON_TYPE + Len(Head(ks)) + SIZE_OF_ZERO_BYTE
         + NodeGetSerializedSize(d[Head(ks)]) + DocSizeFrom(d, Tail(ks))

(* Array::getSerializedSize: the loop over arr_ from element i (1-based) on *)
ArrSizeFrom(a, i) ==
  IF i > Len(a) THEN SIZE_OF_BSON_SIZE + SIZE_OF_ZERO_BYTE
  ELSE SIZE_OF_BSON_TYPE + Len(to_string(i - 1)) + SIZE_OF_ZERO_BYTE
         + NodeGetSerializedSize(a[i]) + ArrSizeFrom(a, i + 1)

(* a faulty variant of Document::getSerializedSize that leaves the final   *)
(* 0x00 out of the count; C2 must tell it from the real one                *)
DocGetSerializedSizeNoTerminator(d) ==
  DocSizeFrom(d, SortedKeys(DOMAIN d)) - SIZE_OF_ZERO_BYTE

DocGetSerializedSize(d) == DocSizeFrom(d, SortedKeys(DOMAIN d))

ArrGetSerializedSize(a) == ArrSizeFrom(a, 1)

----------------------------------------------------------------------------
(* Serialization into a caller's buffer.  A writer state w is              *)
(* [buf, exc, ovf]: the buffer, the exception thrown so far ("" for none)  *)
(* and whether a byte was stored outside the buffer.  Every serialize      *)
(* returns [w, n]: the writer state and the returned byte count.           *)

Writer(b) == [buf |-> b, exc |-> "", ovf |-> FALSE]

(* store the bytes bs at offset off *)
Write(w, off, bs) ==
  IF w.exc # "" THEN w
  ELSE [w EXCEPT
         !.buf = [i \in 1..Len(w.buf) |->
                    IF i - 1 >= off /\ i - 1 < off + Len(bs)
                      THEN bs[i - off] ELSE w.buf[i]],
         !.ovf = w.ovf \/ off < 0 \/ off + Len(bs) > Len(w.buf)]

Throw(w, e) == IF w.exc # "" THEN w ELSE [w EXCEPT !.exc = e]

RECURSIVE NodeSerialize(_, _, _, _), EntriesSerialize(_, _, _, _, _),
          ContainerSerialize(_, _, _, _, _)

(* Binary::serialize *)
BinarySerialize(b, w, off, bufSize) ==
  LET size == Len(b)
  IN  IF bufSize < SIZE_OF_BSON_SIZE + SIZE_OF_BSON_SUBTYPE + size
        THEN [w |-> Throw(w, "InvalidArgument"), n |-> 0]
        ELSE LET w1 == Write(w, off, Int32Bytes(size))
                 w2 == Write(w1, off + SIZE_OF_BSON_SIZE, <<0>>)
                 w3 == Write(w2, off + SIZE_OF_BSON_SIZE + 1, b)
                 w4 == Write(w3, off + SIZE_OF_BSON_SIZE + 1 + size, <<0>>)
             IN  [w |-> w4, n |-> SIZE_OF_BSON_SIZE + SIZE_OF_BSON_SUBTYPE + size]

(* the (key, value) pairs a Document iterates over, in std::map order *)
DocEntries(d) ==
  LET ks == SortedKeys(DOMAIN d)
  IN  [i \in 1..Len(ks) |-> [key |-> ks[i], node |-> d[ks[i]]]]

(* the (key, value) pairs an Array iterates over: key = std::to_string(i) *)
ArrEntries(a) == [i \in 1..Len(a) |-> [key |-> to_string(i - 1), node |-> a[i]]]

(* NodeValueT<T>::serialize and NodeValueT<void>::serialize *)
NodeSerialize(n, w, off, length) ==
  IF n.type = null_node THEN [w |-> w, n |-> SIZE_OF_NULL_VALUE]
  ELSE IF length < NodeGetSerializedSize(n)
    THEN [w |-> Throw(w, "InvalidArgument"), n |-> 0]
  ELSE CASE n.type = string_node ->
              [w |-> Write(Write(w, off, Int32Bytes(Len(n.val) + SIZE_OF_ZERO_BYTE)),
                           off + SIZE_OF_BSON_SIZE, StrcpyBytes(n.val)),
               n |-> SIZE_OF_BSON_SIZE + Len(n.val) + SIZE_OF_ZERO_BYTE]
         [] n.type = document_node ->
              ContainerSerialize(DocEntries(n.val), DocGetSerializedSize(n.val),
                                 w, off, length)
         [] n.type = array_node ->
              ContainerSerialize(ArrEntries(n.val), ArrGetSerializedSize(n.val),
                                 w, off, length)
         [] n.type = binary_node -> BinarySerialize(n.val, w, off, length)
         [] n.type = boolean_node ->
              [w |-> Write(w, off, <<IF n.val THEN 1 ELSE 0>>),
               n |-> SIZE_OF_BOOLEAN_VALUE]
         [] n.type = int32_node ->
              [w |-> Write(w, off, Int32Bytes(n.val)), n |-> 4]
         [] n.type = int64_node ->
              [w |-> Write(w, off, Int64Bytes(n.val)), n |-> 8]
         [] n.type = double_node ->
              [w |-> Write(w, off, DoubleBytes(n.val)), n |-> 8]

(* the loop of Document::serialize / Array::serialize over the entries es, *)
(* from entry i on; buf points at base, offset is the local variable       *)
EntriesSerialize(es, i, st, base, length) ==
  IF i > Len(es) \/ st.w.exc # "" THEN st
  ELSE LET e  == es[i]
           w1 == Write(st.w, base + st.n, <<e.node.type>>)
           o1 == st.n + 1
           w2 == Write(w1, base + o1, StrcpyBytes(e.key))
           o2 == o1 + Len(e.key) + SIZE_OF_ZERO_BYTE
           r  == NodeSerialize(e.node, w2, base + o2, length - o2 - SIZE_OF_ZERO_BYTE)
       IN  EntriesSerialize(es, i + 1, [w |-> r.w, n |-> o2 + r.n], base, length)

(* a faulty variant of the shared body that also refuses a buffer of       *)
(* exactly getSerializedSize() bytes; C13 must tell it from the real one   *)
ContainerSerializeRefusesExact(es, size, w, base, length) ==
  IF length <= size THEN [w |-> Throw(w, "InvalidArgument"), n |-> 0]
  ELSE LET w0 == Write(w, base, Int32Bytes(size))
           st == EntriesSerialize(es, 1, [w |-> w0, n |-> SIZE_OF_BSON_SIZE], base, length)
           w1 == Write(st.w, base + st.n, <<0>>)
           offset == st.n + 1
       IN  IF st.w.exc # "" THEN [w |-> st.w, n |-> 0]
           ELSE IF offset # size THEN [w |-> Throw(w1, "runtime_error"), n |-> 0]
           ELSE [w |-> w1, n |-> offset]

(* the body shared by Document::serialize(buf, length) and                 *)
(* Array::serialize(buf, length); size is this->getSerializedSize()        *)
ContainerSerialize(es, size, w, base, length) ==
  IF length < size THEN [w |-> Throw(w, "InvalidArgument"), n |-> 0]
  ELSE LET w0 == Write(w, base, Int32Bytes(size))
           st == EntriesSerialize(es, 1, [w |-> w0, n |-> SIZE_OF_BSON_SIZE], base, length)
           w1 == Write(st.w, base + st.n, <<0>>)
           offset == st.n + 1
       IN  IF st.w.exc # "" THEN [w |-> st.w, n |-> 0]
           ELSE IF offset # size THEN [w |-> Throw(w1, "runtime_error"), n |-> 0]
           ELSE [w |-> w1, n |-> offset]

(* Document::serialize(void *buf, int length) *)
DocSerialize(d, buf, length) ==
  ContainerSerialize(DocEntries(d), DocGetSerializedSize(d), Writer(buf), 0, length)

(* Array::serialize(void *buf, int length) *)
ArrSerialize(a, buf, length) ==
  ContainerSerialize(ArrEntries(a), ArrGetSerializedSize(a), Writer(buf), 0, length)

(* a buffer of n bytes all equal to b *)
Filled(n, b) == [i \in 1..n |-> b]

(* Document::serialize(): a zero-initialised std::vector of the size *)
DocSerializeVec(d) ==
  LET size == DocGetSerializedSize(d)
  IN  DocSerialize(d, Filled(size, 0), size)

(* Array::serialize() *)
ArrSerializeVec(a) ==
  LET size == ArrGetSerializedSize(a)
  IN  ArrSerialize(a, Filled(size, 0), size)

----------------------------------------------------------------------------
(* microbson: the zero-copy reader.  m is the memory the reader's pointer  *)
(* addresses (offset 0 = the pointer); a read of an offset outside m is    *)
(* undefined behaviour, reported as "ub".  A reader Document is the view   *)
(* [null, data, bufferLength]: data_ is the offset data, or nullptr.       *)

View(base, length) == [null |-> FALSE, data |-> base, bufferLength |-> length]

(* Document() *)
NullView == [null |-> TRUE, data |-> 0, bufferLength |-> 0]

IntMax == Pow2(30) - 1 + Pow2(30)

InMem(m, o) == o >= 0 /\ o < Len(m)

CanReadInt32(m, o) == o >= 0 /\ o + 3 < Len(m)

(* *reinterpret_cast<const int32_t *>(ptr) *)
RdInt32(m, o) == BytesInt32(SubSeq(m, o + 1, o + 4))

(* signed overflow of the int addition a + b *)
AddOverflows(a, b) ==
  \/ b > 0 /\ a > IntMax - b
  \/ b < 0 /\ a < (-IntMax - 1) - b

(* Node::key().size(): strlen from data_ + 1, or -1 when the scan leaves m *)
NodeKeyLen(m, p) ==
  LET nuls == {j \in (p + 1)..(Len(m) - 1) : j >= 0 /\ m[j + 1] = 0}
  IN  IF p + 1 < 0 \/ nuls = {} THEN -1
      ELSE (CHOOSE j \in nuls : \A k \in nuls : j <= k) - (p + 1)

(* Node::key() *)
NodeKey(m, p) == SubSeq(m, p + 2, p + 1 + NodeKeyLen(m, p))

(* Node::type() *)
NodeType(m, p) == m[p + 1]

UbLen == [ub |-> TRUE, len |-> 0]

(* result += (c + *int32 at data_ + result), c the constant part *)
SizedLength(m, p, result, c) ==
  IF ~CanReadInt32(m, p + result) THEN UbLen
  ELSE LET sz == RdInt32(m, p + result)
       IN  IF AddOverflows(sz, c) THEN UbLen
           ELSE IF AddOverflows(result, sz + c) THEN UbLen
           ELSE [ub |-> FALSE, len |-> result + sz + c]

(* Node::length() *)
NodeLength(m, p) ==
  LET kl     == NodeKeyLen(m, p)
      result == SIZE_OF_BSON_TYPE + kl + SIZE_OF_ZERO_BYTE
      t      == NodeType(m, p)
  IN  IF kl = -1 \/ ~InMem(m, p) THEN UbLen
      ELSE IF result = SIZE_OF_BSON_TYPE + SIZE_OF_ZERO_BYTE THEN [ub |-> FALSE, len |-> 0]
      ELSE CASE t = double_node   -> [ub |-> FALSE, len |-> result + SIZE_OF_DOUBLE_VALUE]
             [] t = document_node -> SizedLength(m, p, result, 0)
             [] t = array_node    -> SizedLength(m, p, result, 0)
             [] t = string_node   -> SizedLength(m, p, result, SIZE_OF_BSON_SIZE)
             [] t = binary_node   ->
                  SizedLength(m, p, result, SIZE_OF_BSON_SIZE + SIZE_OF_ZERO_BYTE)
             [] t = boolean_node  -> [ub |-> FALSE, len |-> result + SIZE_OF_BOOLEAN_VALUE]
             [] t = null_node     -> [ub |-> FALSE, len |-> result + SIZE_OF_NULL_VALUE]
             [] t = int32_node    -> [ub |-> FALSE, len |-> result + SIZE_OF_INT32_VALUE]
             [] t = int64_node    -> [ub |-> FALSE, len |-> result + SIZE_OF_INT64_VALUE]
             [] OTHER             -> [ub |-> FALSE, len |-> 0]

(* the minimal node size Node::valid<T> compares maxLength with *)
MinimalSize(t) ==
  CASE t = boolean_node  -> MINIMAL_SIZE_OF_BSON_BOOLEAN_NODE
    [] t = double_node   -> MINIMAL_SIZE_OF_BSON_DOUBLE_NODE
    [] t = int32_node    -> MINIMAL_SIZE_OF_BSON_INT32_NODE
    [] t = int64_node    -> MINIMAL_SIZE_OF_BSON_INT64_NODE
    [] t = string_node   -> MINIMAL_SIZE_OF_BSON_STRING_NODE
    [] t = binary_node   -> MINIMAL_SIZE_OF_BSON_BINARY_NODE
    [] t = document_node -> MINIMAL_SIZE_OF_BSON_DOCUMENT_NODE
    [] t = array_node    -> MINIMAL_SIZE_OF_BSON_DOCUMENT_NODE
    [] t = null_node     -> MINIMAL_SIZE_OF_BSON_NULL_NODE

(* Node::valid<T>(maxLength), T's node_type_code = code: "true", "false",  *)
(* or "ub"                                                                 *)
NodeValid(m, p, code, maxLength) ==
  IF ~InMem(m, p) THEN "ub"
  ELSE IF NodeType(m, p) # code THEN "false"
  ELSE IF NodeType(m, p) \notin NodeTypes THEN "false"
  ELSE IF maxLength < MinimalSize(NodeType(m, p)) THEN "false"
  ELSE LET l == NodeLength(m, p)
       IN  IF l.ub THEN "ub"
           ELSE IF l.len = 0 \/ l.len > maxLength THEN "false"
           ELSE "true"

(* Document::length(): [ub, len] *)
DocLength(m, v) ==
  IF v.null THEN [ub |-> FALSE, len |-> 0]
  ELSE IF ~CanReadInt32(m, v.data) THEN UbLen
  ELSE [ub |-> FALSE, len |-> RdInt32(m, v.data)]

(* Document::empty() *)
ReaderEmpty(v) == v.null

(* Document::begin() / Document::end() as offsets; the default iterator    *)
(* of an empty() reader is offset 0 on both sides                          *)
DocBegin(m, v) == IF v.null THEN 0 ELSE v.data + SIZE_OF_BSON_SIZE

DocEnd(m, v) == IF v.null THEN 0 ELSE v.data + DocLength(m, v).len - 1

(* a faulty variant of the envelope check that never compares the         *)
(* declared length with bufferLength_; C6 must tell it from the real one   *)
EnvelopeIgnoringBufferLength(m, v) ==
  IF v.null THEN "ok"
  ELSE IF DocLength(m, v).ub THEN "ub"
  ELSE IF ~InMem(m, v.data + DocLength(m, v).len - 1) THEN "ub"
  ELSE IF m[v.data + DocLength(m, v).len] # 0 THEN "false"
  ELSE "ok"

(* the envelope check that opens Document::valid(): "ok", "false", "ub" *)
Envelope(m, v) ==
  IF v.null THEN "ok"
  ELSE IF ~(v.bufferLength >= MINIMAL_SIZE_OF_BSON_DOCUMENT) THEN "false"
  ELSE IF DocLength(m, v).ub THEN "ub"
  ELSE IF ~(DocLength(m, v).len <= v.bufferLength) THEN "false"
  ELSE IF ~InMem(m, v.data + DocLength(m, v).len - 1) THEN "ub"
  ELSE IF m[v.data + DocLength(m, v).len] # 0 THEN "false"
  ELSE "ok"

(* the payload offset Node::value computes: data_ + 1 + key().size() + 1 *)
PayloadOffset(m, p) == p + SIZE_OF_BSON_TYPE + NodeKeyLen(m, p) + SIZE_OF_ZERO_BYTE

(* type_traits<Document>::converter, type_traits<Array>::converter *)
NestedView(m, off) == View(off, RdInt32(m, off))

(* one pass of the loop body of Document::valid() at cursor i:            *)
(* [r, adv, sub], r = "false", "ub", "next" (++i by adv) or "nested"      *)
(* (sub.valid() is called, then ++i by adv)                               *)
ValidNode(m, i, end) ==
  LET t   == NodeType(m, i)
      nv  == NodeValid(m, i, t, end - i)
      l   == NodeLength(m, i)
      nop == [r |-> "false", adv |-> 0, sub |-> NullView]
  IN  IF ~InMem(m, i) THEN [nop EXCEPT !.r = "ub"]
      ELSE IF t \notin NodeTypes THEN nop
      ELSE IF nv # "true" THEN [nop EXCEPT !.r = nv]
      ELSE IF t \in {document_node, array_node}
        THEN [r |-> "nested", adv |-> l.len, sub |-> NestedView(m, PayloadOffset(m, i))]
      ELSE [r |-> "next", adv |-> l.len, sub |-> NullView]

RECURSIVE DocValidFrom(_, _, _, _, _), DocValidIn(_, _, _)

(* Document::valid() of the view v, called while the views at the offsets  *)
(* in active are being validated: "true", "false", "ub", or "hang" when    *)
(* the loop or the recursion never ends                                    *)
DocValidIn(m, v, active) ==
  LET e == Envelope(m, v)
  IN  IF e # "ok" THEN e
      ELSE IF v.null THEN "true"
      ELSE IF v.data \in active THEN "hang"
      ELSE DocValidFrom(m, DocBegin(m, v), DocEnd(m, v), {}, active \cup {v.data})

(* the loop of Document::valid() from cursor i on; seen = cursors visited *)
DocValidFrom(m, i, end, seen, active) ==
  IF i = end THEN "true"
  ELSE IF i \in seen THEN "hang"
  ELSE LET o == ValidNode(m, i, end)
       IN  CASE o.r = "false"  -> "false"
             [] o.r = "ub"     -> "ub"
             [] o.r = "next"   -> DocValidFrom(m, i + o.adv, end, seen \cup {i}, active)
             [] o.r = "nested" ->
                  LET n == DocValidIn(m, o.sub, active)
                  IN  IF n # "true" THEN n
                      ELSE DocValidFrom(m, i + o.adv, end, seen \cup {i}, active)

(* Document::valid() *)
DocValid(m, v) == DocValidIn(m, v, {})

----------------------------------------------------------------------------
(* Typed access.  An operation's outcome is [st, ret]: st is "ok" with the *)
(* returned value ret, the exception thrown ("BadCast", "OutOfRange",        *)
(* "InvalidArgument"), "hang" when the call never returns, or "ub".        *)

Ok(x) == [st |-> "ok", ret |-> x]

Fail(e) == [st |-> e, ret |-> <<>>]

(* the NUL-terminated string at offset o: [ub, s] *)
RdCStr(m, o) ==
  LET n == NodeKeyLen(m, o - 1)
  IN  IF n = -1 THEN [ub |-> TRUE, s |-> <<>>]
      ELSE [ub |-> FALSE, s |-> SubSeq(m, o + 1, o + n)]

InMemRange(m, o, n) == o >= 0 /\ o + n <= Len(m)

(* type_traits<T>::converter(offset), T named by its node_type_code *)
Convert(m, off, code) ==
  CASE code = double_node ->
         IF InMemRange(m, off, 8) THEN Ok(BytesDouble(SubSeq(m, off + 1, off + 8)))
         ELSE Fail("ub")
    [] code = int32_node ->
         IF InMemRange(m, off, 4) THEN Ok(RdInt32(m, off)) ELSE Fail("ub")
    [] code = int64_node ->
         IF InMemRange(m, off, 8) THEN Ok(BytesInt64(SubSeq(m, off + 1, off + 8)))
         ELSE Fail("ub")
    [] code = string_node ->
         LET c == RdCStr(m, off + SIZE_OF_BSON_SIZE)
         IN  IF c.ub THEN Fail("ub") ELSE Ok(c.s)
    [] code = boolean_node ->
         IF InMem(m, off) THEN Ok(m[off + 1] # 0) ELSE Fail("ub")
    [] code = null_node -> Ok(<<>>)
    [] code \in {document_node, array_node} ->
         IF InMemRange(m, off, 4) THEN Ok(NestedView(m, off)) ELSE Fail("ub")
    [] code = binary_node ->
         IF InMemRange(m, off, 4)
           THEN Ok([ptr |-> off + SIZE_OF_BSON_SIZE + SIZE_OF_BSON_SUBTYPE,
                    size |-> RdInt32(m, off)])
           ELSE Fail("ub")

(* Node::value<T>(), and its specialisation for bson::Scalar *)
NodeValue(m, p, T) ==
  IF ~InMem(m, p) \/ NodeKeyLen(m, p) = -1 THEN Fail("ub")
  ELSE LET t   == NodeType(m, p)
           off == PayloadOffset(m, p)
       IN  IF T = Scalar
             THEN CASE t = double_node -> Convert(m, off, double_node)
                    [] t = int32_node ->
                         IF InMemRange(m, off, 4) THEN Ok(IntToDouble(RdInt32(m, off)))
                         ELSE Fail("ub")
                    [] t = int64_node ->
                         IF InMemRange(m, off, 8)
                           THEN Ok(Int64ToDouble(BytesInt64(SubSeq(m, off + 1, off + 8))))
                           ELSE Fail("ub")
                    [] OTHER -> Fail("BadCast")
             ELSE IF t # T THEN Fail("BadCast")
             ELSE Convert(m, off, T)

(* whether a node's type is the one contains<T> asks for *)
TypeMatches(t, T) ==
  IF T = Scalar THEN t \in {double_node, int32_node, int64_node} ELSE t = T

RECURSIVE FindFrom(_, _, _, _, _)

(* std::find_if(begin, end, key equal) from cursor i on: [st, p] with st   *)
(* "found" (at p), "end", "hang" or "ub"                                   *)
FindFrom(m, i, end, key, seen) ==
  IF i = end THEN [st |-> "end", p |-> end]
  ELSE IF i \in seen THEN [st |-> "hang", p |-> i]
  ELSE IF NodeKeyLen(m, i) = -1 THEN [st |-> "ub", p |-> i]
  ELSE IF NodeKey(m, i) = key THEN [st |-> "found", p |-> i]
  ELSE IF NodeLength(m, i).ub THEN [st |-> "ub", p |-> i]
  ELSE FindFrom(m, i + NodeLength(m, i).len, end, key, seen \cup {i})

Find(m, v, key) ==
  IF DocLength(m, v).ub THEN [st |-> "ub", p |-> 0]
  ELSE FindFrom(m, DocBegin(m, v), DocEnd(m, v), key, {})

(* microbson Document::get<T>(key) *)
ReaderGet(m, v, key, T) ==
  LET f == Find(m, v, key)
  IN  CASE f.st = "found" -> NodeValue(m, f.p, T)
        [] f.st = "end"   -> Fail("OutOfRange")
        [] OTHER          -> Fail(f.st)

(* microbson Document::contains<T>(key), contains<bson::Scalar>(key) *)
ReaderContainsT(m, v, key, T) ==
  LET f == Find(m, v, key)
  IN  CASE f.st = "found" ->
             IF InMem(m, f.p) THEN Ok(TypeMatches(NodeType(m, f.p), T)) ELSE Fail("ub")
        [] f.st = "end"   -> Ok(FALSE)
        [] OTHER          -> Fail(f.st)

(* microbson Document::contains(key) *)
ReaderContains(m, v, key) ==
  LET f == Find(m, v, key)
  IN  CASE f.st = "found" -> Ok(TRUE)
        [] f.st = "end"   -> Ok(FALSE)
        [] OTHER          -> Fail(f.st)

RECURSIVE WalkFrom(_, _, _, _, _, _)

(* the loop of Array::at: ++iter while iter != end and counter < n *)
WalkFrom(m, i, end, counter, n, seen) ==
  IF i = end THEN [st |-> "end", p |-> end]
  ELSE IF ~(counter < n) THEN [st |-> "found", p |-> i]
  ELSE IF <<i, counter>> \in seen THEN [st |-> "hang", p |-> i]
  ELSE IF NodeLength(m, i).ub THEN [st |-> "ub", p |-> i]
  ELSE WalkFrom(m, i + NodeLength(m, i).len, end, counter + 1, n, seen \cup {<<i, counter>>})

(* microbson Array::at<T>(i) *)
ReaderAt(m, v, n, T) ==
  IF DocLength(m, v).ub THEN Fail("ub")
  ELSE LET f == WalkFrom(m, DocBegin(m, v), DocEnd(m, v), 0, n, {})
       IN  CASE f.st = "found" -> NodeValue(m, f.p, T)
             [] f.st = "end"   -> Fail("OutOfRange")
             [] OTHER          -> Fail(f.st)

(* microbson Array::contains<T>(i) *)
ReaderArrContainsT(m, v, n, T) == ReaderContainsT(m, v, to_string(n), T)

RECURSIVE CountFrom(_, _, _, _)

(* std::distance(begin, end) on the forward iterator *)
CountFrom(m, i, end, seen) ==
  IF i = end THEN Ok(0)
  ELSE IF i \in seen THEN Fail("hang")
  ELSE IF NodeLength(m, i).ub THEN Fail("ub")
  ELSE LET r == CountFrom(m, i + NodeLength(m, i).len, end, seen \cup {i})
       IN  IF r.st = "ok" THEN Ok(r.ret + 1) ELSE r

(* microbson Document::size() *)
ReaderSize(m, v) ==
  IF DocLength(m, v).ub THEN Fail("ub")
  ELSE CountFrom(m, DocBegin(m, v), DocEnd(m, v), {})

RECURSIVE FieldsFrom(_, _, _, _)

(* for (auto it = doc.begin(); it != doc.end(); ++it) on the reader: the   *)
(* offsets of the nodes visited                                            *)
FieldsFrom(m, i, end, seen) ==
  IF i = end THEN Ok(<<>>)
  ELSE IF i \in seen THEN Fail("hang")
  ELSE IF NodeLength(m, i).ub THEN Fail("ub")
  ELSE LET r == FieldsFrom(m, i + NodeLength(m, i).len, end, seen \cup {i})
       IN  IF r.st = "ok" THEN Ok(<<i>> \o r.ret) ELSE r

ReaderFields(m, v) ==
  IF DocLength(m, v).ub THEN Fail("ub")
  ELSE FieldsFrom(m, DocBegin(m, v), DocEnd(m, v), {})

----------------------------------------------------------------------------
(* minibson Document: typed access and mutation *)

(* minibson Document::get<T>(key), and get<bson::Scalar>(key) *)
BuilderGet(d, key, T) ==
  IF key \in DOMAIN d
    THEN LET n == d[key]
         IN  IF T = Scalar
               THEN CASE n.type = double_node -> Ok(n.val)
                      [] n.type = int32_node  -> Ok(IntToDouble(n.val))
                      [] n.type = int64_node  -> Ok(Int64ToDouble(n.val))
                      [] OTHER                -> Fail("BadCast")
               ELSE IF n.type = T THEN Ok(n.val) ELSE Fail("BadCast")
    ELSE Fail("OutOfRange")

(* minibson Document::contains(key) *)
BuilderContains(d, key) == Ok(key \in DOMAIN d)

(* minibson Document::contains<T>(key), contains<bson::Scalar>(key) *)
BuilderContainsT(d, key, T) ==
  Ok(key \in DOMAIN d /\ TypeMatches(d[key].type, T))

(* minibson Array::at<T>(i), and at<bson::Scalar>(i).  The typed overloads *)
(* test arr_.size() < size_t(i), so i = size() indexes past the vector;    *)
(* a negative i converts to a huge size_t                                  *)
BuilderAt(a, i, T) ==
  IF T = Scalar
    THEN IF i < 0 \/ i >= Len(a) THEN Fail("OutOfRange")
         ELSE CASE a[i + 1].type = double_node -> Ok(a[i + 1].val)
                [] a[i + 1].type = int32_node  -> Ok(IntToDouble(a[i + 1].val))
                [] a[i + 1].type = int64_node  -> Ok(Int64ToDouble(a[i + 1].val))
                [] OTHER                       -> Fail("BadCast")
    ELSE IF i < 0 \/ Len(a) < i THEN Fail("OutOfRange")
    ELSE IF i = Len(a) THEN Fail("ub")
    ELSE IF a[i + 1].type # T THEN Fail("BadCast")
    ELSE Ok(a[i + 1].val)

(* a faulty variant of Document::set that keeps the node a key already     *)
(* holds (doc_.emplace); C14 must tell it from the real one                *)
DocSetKeepsOld(d, key, n) ==
  [k \in DOMAIN d \cup {key} |-> IF k \in DOMAIN d THEN d[k] ELSE n]

(* minibson Document::set(key, val): doc_.insert_or_assign *)
DocSet(d, key, n) == [k \in DOMAIN d \cup {key} |-> IF k = key THEN n ELSE d[k]]

(* a faulty variant of Document::erase that removes every entry            *)
(* (doc_.clear); C15 must tell it from the real one                        *)
DocEraseClears(d, key) == [k \in {} |-> d[k]]

(* minibson Document::erase(key): doc_.erase *)
DocErase(d, key) == [k \in DOMAIN d \ {key} |-> d[k]]

(* minibson Document::size() *)
DocSize(d) == Cardinality(DOMAIN d)

----------------------------------------------------------------------------
(* minibson: a Document or Array built from a buffer.  The constructor     *)
(* wraps the buffer in a reader, asks it valid() and then walks it, adding *)
(* one node per field.  An outcome is Ok(tree) or Fail(what went wrong).   *)

RECURSIVE NodeDeserialize(_, _), DocDeserialize(_, _), ArrDeserialize(_, _),
          DocEmplaceAll(_, _, _, _), ArrEmplaceAll(_, _, _, _)

(* one case of the switch of deserialize: the NodeValue created for the    *)
(* node at offset p.  Binary{microbson::Binary} is noexcept and resizes    *)
(* its vector to the declared size: a negative size ends the program       *)
NodeDeserialize(m, p) ==
  IF ~InMem(m, p) \/ NodeKeyLen(m, p) = -1 THEN Fail("ub")
  ELSE IF NodeType(m, p) \notin NodeTypes THEN Fail("InvalidArgument")
  ELSE The({
    IF c.st # "ok" THEN c
    ELSE CASE t = array_node ->
                The({IF a.st = "ok" THEN Ok(Node(t, a.ret)) ELSE a :
                       a \in {ArrDeserialize(m, c.ret)}})
           [] t = document_node ->
                The({IF d.st = "ok" THEN Ok(Node(t, d.ret)) ELSE d :
                       d \in {DocDeserialize(m, c.ret)}})
           [] t = binary_node ->
                IF c.ret.size < 0 THEN Fail("crash")
                ELSE IF ~InMemRange(m, c.ret.ptr, c.ret.size) THEN Fail("ub")
                ELSE Ok(Node(t, SubSeq(m, c.ret.ptr + 1, c.ret.ptr + c.ret.size)))
           [] OTHER -> Ok(Node(t, c.ret)) :
    t \in {NodeType(m, p)}, c \in {Convert(m, PayloadOffset(m, p), NodeType(m, p))}})

(* the loop of Document::deserialize over the nodes at offsets ps, from    *)
(* the i-th on: doc_.emplace keeps the node a key already has              *)
DocEmplaceAll(m, ps, i, d) ==
  IF i > Len(ps) THEN Ok(d)
  ELSE The({
    IF n.st # "ok" THEN n
    ELSE The({DocEmplaceAll(m, ps, i + 1, d2) :
                d2 \in {IF key \in DOMAIN d THEN d ELSE DocSet(d, key, n.ret)}}) :
    n \in {NodeDeserialize(m, ps[i])}, key \in {NodeKey(m, ps[i])}})

(* the loop of Array::deserialize: arr_.emplace_back *)
ArrEmplaceAll(m, ps, i, a) ==
  IF i > Len(ps) THEN Ok(a)
  ELSE The({
    IF n.st # "ok" THEN n
    ELSE The({ArrEmplaceAll(m, ps, i + 1, a2) : a2 \in {Append(a, n.ret)}}) :
    n \in {NodeDeserialize(m, ps[i])}})

(* minibson Document::deserialize(microbson::Document) *)
DocDeserialize(m, v) ==
  The({
    CASE r = "false" -> Fail("InvalidArgument")
      [] r = "true"  ->
           The({IF f.st = "ok" THEN DocEmplaceAll(m, f.ret, 1, <<>>) ELSE f :
                  f \in {ReaderFields(m, v)}})
      [] OTHER       -> Fail(r) :
    r \in {DocValid(m, v)}})

(* minibson Array::deserialize(microbson::Array) *)
ArrDeserialize(m, v) ==
  The({
    CASE r = "false" -> Fail("InvalidArgument")
      [] r = "true"  ->
           The({IF f.st = "ok" THEN ArrEmplaceAll(m, f.ret, 1, <<>>) ELSE f :
                  f \in {ReaderFields(m, v)}})
      [] OTHER       -> Fail(r) :
    r \in {DocValid(m, v)}})

----------------------------------------------------------------------------
(* The inputs of the model *)

(* the most entries the top-level builder document holds at once *)
MaxFields == 2

(* keys: "", "a", "b" *)
Keys == {<<>>, <<97>>, <<98>>}

(* the values set() is called with, one or two of every type; strings "x"  *)
(* and "x\0y", a nested document {"a": false, "b": [0.0]} and a nested     *)
(* array [1, {"": null}]                                                   *)
SampleValues ==
  << Node(double_node, IntToDouble(3)),
     Node(int32_node, -2),
     Node(int64_node, Int64Of(5)),
     Node(boolean_node, TRUE),
     Node(null_node, <<>>),
     Node(string_node, <<120>>),
     Node(string_node, <<120, 0, 121>>),
     Node(binary_node, <<7, 0>>),
     Node(document_node,
          (<<97>> :> Node(boolean_node, FALSE))
            @@ (<<98>> :> Node(array_node, <<Node(double_node, IntToDouble(0))>>))),
     Node(array_node,
          <<Node(int32_node, 1),
            Node(document_node, (<<>> :> Node(null_node, <<>>)))>>) >>

(* the types T of get<T> and contains<T> *)
QueryTypes == NodeTypes \cup {Scalar}

(* what every byte of a caller's buffer holds before serialize writes to  *)
(* it: 0xCD                                                                *)
JunkBytes == {205}

Op(name, key, T, arg, out) ==
  [op |-> name, key |-> key, T |-> T, arg |-> arg, out |-> out]

(* valid() is not running: no frame, no result, nothing read *)
Idle == [pc |-> "idle", stack |-> <<>>, result |-> "", reads |-> {}]

(* What a call returns to its caller.  Undefined behaviour (an access      *)
(* outside the memory the object owns or was given) has no single outcome: *)
(* the call may crash, or go on with whatever the stray access met.        *)
Outcomes(o) ==
  IF o.st = "ub" THEN {Fail("crash"), Fail("BadCast"), Fail("garbage")} ELSE {o}

(* the outcomes of a noexcept query returning bool *)
BoolOutcomes(o) ==
  IF o.st = "ub" THEN {Fail("crash"), Ok(TRUE), Ok(FALSE)} ELSE {o}

(* the outcomes of minibson::Document{buffer, length} *)
DeserializeOutcomes(o) ==
  IF o.st = "ub"
    THEN {Fail("crash"), Fail("InvalidArgument"), Fail("garbage")} ELSE {o}

(* the same for valid(), whose outcomes are "true", "false" and "hang" *)
ValidOutcomes(r) ==
  IF r = "ub" THEN {Fail("crash"), Fail("true"), Fail("false")} ELSE {Fail(r)}

----------------------------------------------------------------------------
(* The builder, then the reader over what it serialized.  A run sets and   *)
(* erases keys and queries the builder; then it serializes the document    *)
(* into a buffer, constructs a reader over the buffer and queries it.      *)

Init ==
  /\ doc = <<>>
  /\ mem = <<>>
  /\ reader = NullView
  /\ res = Op("init", <<>>, 0, 0, Ok(0))
  /\ vst = Idle

(* A query leaves the object it is called on unchanged: whatever follows a *)
(* query also follows the state before it.  A behaviour of the model       *)
(* therefore takes its steps from the states a mutation or a construction  *)
(* has produced, and a query is the last step of its branch.               *)
Fresh == res.op \in {"init", "set", "erase", "construct"}

Building == mem = <<>> /\ Fresh

(* d.set(key, value) *)
Set(key, i) ==
  /\ Building
  /\ Cardinality(DOMAIN doc \cup {key}) <= MaxFields
  /\ doc' = DocSet(doc, key, SampleValues[i])
  /\ res' = Op("set", <<>>, 0, 0, Ok(0))
  /\ UNCHANGED <<mem, reader, vst>>

(* d.erase(key) *)
Erase(key) ==
  /\ Building
  /\ doc' = DocErase(doc, key)
  /\ res' = Op("erase", <<>>, 0, 0, Ok(0))
  /\ UNCHANGED <<mem, reader, vst>>

(* d.get<T>(key) *)
BGet(key, T) ==
  /\ Building
  /\ res' = Op("bget", key, T, 0, BuilderGet(doc, key, T))
  /\ UNCHANGED <<doc, mem, reader, vst>>

(* d.contains<T>(key) *)
BContainsT(key, T) ==
  /\ Building
  /\ res' = Op("bcontainsT", key, T, 0, BuilderContainsT(doc, key, T))
  /\ UNCHANGED <<doc, mem, reader, vst>>

(* d.get<Array>(key).at<T>(i) *)
BAt(key, i, T) ==
  /\ Building
  /\ key \in DOMAIN doc /\ doc[key].type = array_node
  /\ \E o \in Outcomes(BuilderAt(doc[key].val, i, T)) :
       res' = Op("bat", key, T, i, o)
  /\ UNCHANGED <<doc, mem, reader, vst>>

(* d.serialize(buf, capacity) into a caller's buffer of capacity bytes *)
Serialize(capacity) ==
  /\ Building
  /\ capacity >= 0
  /\ \E j \in JunkBytes :
     LET r == DocSerialize(doc, Filled(capacity, j), capacity)
     IN  /\ mem' = r.w.buf
         /\ res' = Op("serialize", <<>>, 0, capacity,
                      IF r.w.exc # "" THEN Fail(r.w.exc)
                      ELSE IF r.w.ovf THEN Fail("ub") ELSE Ok(r.n))
  /\ UNCHANGED <<doc, reader, vst>>

(* d.serialize(): the std::vector overload *)
SerializeVec ==
  /\ Building
  /\ LET r == DocSerializeVec(doc)
     IN  /\ mem' = r.w.buf
         /\ res' = Op("serialize", <<>>, 0, DocGetSerializedSize(doc),
                      IF r.w.exc # "" THEN Fail(r.w.exc)
                      ELSE IF r.w.ovf THEN Fail("ub") ELSE Ok(r.n))
  /\ UNCHANGED <<doc, reader, vst>>

(* d.get<Document>(key).serialize(buf, capacity) and                      *)
(* d.get<Array>(key).serialize(buf, capacity): a nested container          *)
(* serialized on its own                                                   *)
SerializeNested(key, capacity) ==
  /\ Building
  /\ key \in DOMAIN doc /\ doc[key].type \in {document_node, array_node}
  /\ capacity >= 0
  /\ \E j \in JunkBytes :
     LET r == IF doc[key].type = document_node
                THEN DocSerialize(doc[key].val, Filled(capacity, j), capacity)
                ELSE ArrSerialize(doc[key].val, Filled(capacity, j), capacity)
     IN  /\ mem' = r.w.buf
         /\ res' = Op("serialize", key, doc[key].type, capacity,
                      IF r.w.exc # "" THEN Fail(r.w.exc)
                      ELSE IF r.w.ovf THEN Fail("ub") ELSE Ok(r.n))
  /\ UNCHANGED <<doc, reader, vst>>

(* serialize(buf, capacity) of the NodeValue the builder's iterator is on, *)
(* the entry under key: one value serialized on its own into a caller's    *)
(* buffer                                                                  *)
SerializeValue(key, capacity) ==
  /\ Building
  /\ key \in DOMAIN doc
  /\ capacity >= -1
  /\ \E j \in JunkBytes :
     LET r == NodeSerialize(doc[key], Writer(Filled(capacity, j)), 0, capacity)
     IN  /\ mem' = r.w.buf
         /\ res' = Op("serializeValue", key, doc[key].type, capacity,
                      IF r.w.exc # "" THEN Fail(r.w.exc)
                      ELSE IF r.w.ovf THEN Fail("ub") ELSE Ok(r.n))
  /\ UNCHANGED <<doc, reader, vst>>

(* a serialize of the top-level document has returned normally *)
Serialized == res.op = "serialize" /\ res.T = 0 /\ res.out.st = "ok"

Returned == IF Serialized THEN res.out.ret ELSE 0

(* microbson::Document{buffer, length}, after a serialize that returned *)
Construct(length) ==
  /\ Serialized
  /\ reader' = View(0, length)
  /\ res' = Op("construct", <<>>, 0, length, Ok(0))
  /\ UNCHANGED <<doc, mem, vst>>

(* minibson::Document{buffer, length} over the bytes serialize returned:   *)
(* a second builder document, made from the output of the first            *)
BuildFromOutput ==
  /\ Serialized
  /\ \E built \in {DocDeserialize(mem, View(0, Returned))} :
       \E o \in DeserializeOutcomes(built) :
         res' = Op("build", <<>>, 0, Returned, o)
  /\ UNCHANGED <<doc, mem, reader, vst>>

Reading == ~reader.null

(* a reader over exactly the serialized bytes *)
ReadingExact == Reading /\ reader.bufferLength = Len(mem)

(* doc.valid() *)
Valid ==
  /\ Reading /\ Fresh
  /\ \E o \in ValidOutcomes(DocValid(mem, reader)) :
       res' = Op("valid", <<>>, 0, 0, o)
  /\ UNCHANGED <<doc, mem, reader, vst>>

(* doc.get<T>(key) *)
RGet(key, T) ==
  /\ ReadingExact /\ Fresh
  /\ \E o \in Outcomes(ReaderGet(mem, reader, key, T)) :
       res' = Op("rget", key, T, 0, o)
  /\ UNCHANGED <<doc, mem, reader, vst>>

(* doc.contains<T>(key) *)
RContainsT(key, T) ==
  /\ ReadingExact /\ Fresh
  /\ \E o \in Outcomes(ReaderContainsT(mem, reader, key, T)) :
       res' = Op("rcontainsT", key, T, 0, o)
  /\ UNCHANGED <<doc, mem, reader, vst>>

(* doc.contains(key) *)
RContains(key) ==
  /\ ReadingExact /\ Fresh
  /\ \E o \in Outcomes(ReaderContains(mem, reader, key)) :
       res' = Op("rcontains", key, 0, 0, o)
  /\ UNCHANGED <<doc, mem, reader, vst>>

(* doc.get<Array>(key).at<T>(i) *)
RAt(key, i, T) ==
  /\ ReadingExact /\ Fresh
  /\ LET a == ReaderGet(mem, reader, key, array_node)
     IN  /\ a.st = "ok"
         /\ \E o \in Outcomes(ReaderAt(mem, a.ret, i, T)) :
              res' = Op("rat", key, T, i, o)
  /\ UNCHANGED <<doc, mem, reader, vst>>

(* the reader is default-constructed, or over exactly the serialized bytes *)
Readable == Fresh /\ (reader.null \/ ReadingExact)

(* doc.size() *)
RSize ==
  /\ Readable
  /\ \E o \in Outcomes(ReaderSize(mem, reader)) :
       res' = Op("rsize", <<>>, 0, 0, o)
  /\ UNCHANGED <<doc, mem, reader, vst>>

(* doc.empty() *)
REmpty ==
  /\ Readable
  /\ res' = Op("rempty", <<>>, 0, 0, Ok(ReaderEmpty(reader)))
  /\ UNCHANGED <<doc, mem, reader, vst>>

(* doc.length() *)
RLength ==
  /\ Readable
  /\ \E o \in Outcomes(IF DocLength(mem, reader).ub THEN Fail("ub")
                        ELSE Ok(DocLength(mem, reader).len)) :
       res' = Op("rlength", <<>>, 0, 0, o)
  /\ UNCHANGED <<doc, mem, reader, vst>>

(* the indexes at() is called with: one below, all of, and two above *)
Indexes == -1..3

(* the size a nested container at key reports, 0 where there is none *)
NestedSize(key) ==
  IF key \in DOMAIN doc /\ doc[key].type \in {document_node, array_node}
    THEN NodeGetSerializedSize(doc[key]) ELSE 0

(* the size the value under key reports, 0 where there is none *)
ValueSize(key) == IF key \in DOMAIN doc THEN NodeGetSerializedSize(doc[key]) ELSE 0

Next ==
  \/ \E key \in Keys, i \in 1..Len(SampleValues) : Set(key, i)
  \/ \E key \in Keys : Erase(key)
  \/ \E key \in Keys, T \in QueryTypes : BGet(key, T)
  \/ \E key \in Keys, T \in QueryTypes : BContainsT(key, T)
  \/ \E c \in {DocGetSerializedSize(doc) - 1, DocGetSerializedSize(doc),
               DocGetSerializedSize(doc) + 1} : Serialize(c)
  \/ SerializeVec
  \/ \E key \in Keys :
       \E c \in {NestedSize(key) - 1, NestedSize(key), NestedSize(key) + 1} :
         SerializeNested(key, c)
  \/ \E key \in Keys, i \in Indexes, T \in QueryTypes : BAt(key, i, T)
  \/ \E key \in Keys, i \in Indexes, T \in QueryTypes : RAt(key, i, T)
  \/ \E l \in {Returned - 1, Returned, Returned + 1} : Construct(l)
  \/ Valid
  \/ \E key \in Keys, T \in QueryTypes : RGet(key, T)
  \/ \E key \in Keys, T \in QueryTypes : RContainsT(key, T)
  \/ \E key \in Keys : RContains(key)
  \/ \E key \in Keys :
       \E c \in {ValueSize(key) - 1, ValueSize(key), ValueSize(key) + 1} :
         SerializeValue(key, c)
  \/ RSize
  \/ REmpty
  \/ RLength

Spec == Init /\ [][Next]_vars

(* The builder's round trip: a document is built by set and erase, is      *)
(* serialized, and a second builder document is constructed from the bytes *)
NextRebuild ==
  \/ \E key \in Keys, i \in 1..Len(SampleValues) : Set(key, i)
  \/ \E key \in Keys : Erase(key)
  \/ \E c \in {DocGetSerializedSize(doc) - 1, DocGetSerializedSize(doc),
               DocGetSerializedSize(doc) + 1} : Serialize(c)
  \/ SerializeVec
  \/ BuildFromOutput

SpecRebuild == Init /\ [][NextRebuild]_vars

----------------------------------------------------------------------------
(* The reader over arbitrary bytes.  The buffer is what the builder wrote  *)
(* for a small document, possibly with one byte changed, or bytes put      *)
(* together by hand.  Document::valid() runs one loop pass per step: vst   *)
(* holds a stack of frames [i, end], one per Document::valid() call in     *)
(* progress (i the loop cursor, end the end iterator, both as offsets),    *)
(* the result once it has returned, and every offset read so far.          *)

(* the documents whose serialization is read: the empty one, every         *)
(* one-field document under the keys "" and "a", and {"a": "x", "b": null} *)
SeedDocs ==
  {<<>>}
    \cup {k :> SampleValues[i] : k \in {<<>>, <<97>>}, i \in 1..Len(SampleValues)}
    \cup {(<<97>> :> SampleValues[6]) @@ (<<98>> :> SampleValues[5])}

(* buffers given as they are:                                              *)
(*  - the invalidBson of test.cpp: length 10, an int32 field, empty key    *)
(*  - {"a": 1} followed by a string field "b" whose size field is -14      *)
(*  - a string field whose key runs up to the document terminator          *)
(*  - a binary field "aa" whose size field is -1, so that the field ends   *)
(*    where its subtype byte would be: at the document terminator          *)
(*  - the array [1, null]: an int32 field "0" and a null field "1"         *)
(*  - two fields under the same key: "a" = 1 (int32), then "a" = null      *)
GivenBuffers ==
  { <<10, 0, 0, 0, 16, 0, 0, 0, 0, 0>>,
    <<20, 0, 0, 0, 16, 97, 0, 1, 0, 0, 0, 2, 98, 0, 242, 255, 255, 255, 0, 0>>,
    <<11, 0, 0, 0, 2, 97, 97, 97, 97, 97, 0>>,
    <<13, 0, 0, 0, 5, 97, 97, 0, 255, 255, 255, 255, 0>>,
    <<15, 0, 0, 0, 16, 48, 0, 1, 0, 0, 0, 10, 49, 0, 0>>,
    <<15, 0, 0, 0, 16, 97, 0, 1, 0, 0, 0, 10, 97, 0, 0>> }

(* the values a changed byte takes *)
CorruptBytes == {0, 1, 2, 3, 5, 10, 16, 255}

InitReader ==
  /\ \/ \E d \in SeedDocs :
          /\ doc = d
          /\ mem = DocSerializeVec(d).w.buf
          /\ res = Op("serialize", <<>>, 0, DocGetSerializedSize(d),
                      Ok(DocSerializeVec(d).n))
     \/ \E b \in GivenBuffers :
          /\ doc = <<>>
          /\ mem = b
          /\ res = Op("given", <<>>, 0, Len(b), Ok(0))
  /\ reader = NullView
  /\ vst = Idle

(* one byte of the serialized document, at offset off, becomes b *)
Corrupt(off, b) ==
  /\ res.op = "serialize" /\ reader.null
  /\ off \in 0..(Len(mem) - 1)
  /\ mem[off + 1] # b
  /\ mem' = [mem EXCEPT ![off + 1] = b]
  /\ res' = Op("corrupt", <<>>, 0, off, Ok(b))
  /\ UNCHANGED <<doc, reader, vst>>

(* microbson::Document{mem, Len(mem)} *)
ConstructOver ==
  /\ reader.null
  /\ reader' = View(0, Len(mem))
  /\ UNCHANGED <<doc, mem, res, vst>>

(* the offsets the envelope check of Document::valid() reads *)
EnvelopeReads(m, v) ==
  IF v.null \/ ~(v.bufferLength >= MINIMAL_SIZE_OF_BSON_DOCUMENT) THEN {}
  ELSE IF DocLength(m, v).ub \/ ~(DocLength(m, v).len <= v.bufferLength)
    THEN v.data..(v.data + 3)
  ELSE v.data..(v.data + 3) \cup {v.data + DocLength(m, v).len - 1}

(* the offsets one loop pass at cursor i reads: the type byte; then, once  *)
(* Node::valid is past its minimal-size test, the key up to its NUL (up    *)
(* to the first offset outside the memory if there is none); then the      *)
(* int32 size of a string, binary, document or array with a non-empty key  *)
NodeReads(m, i, end) ==
  IF ~InMem(m, i) THEN {i}
  ELSE IF NodeType(m, i) \notin NodeTypes THEN {i}
  ELSE IF end - i < MinimalSize(NodeType(m, i)) THEN {i}
  ELSE IF NodeKeyLen(m, i) = -1 THEN i..Len(m)
  ELSE IF NodeKeyLen(m, i) = 0 THEN i..(i + 1)
  ELSE IF NodeType(m, i) \in {string_node, binary_node, document_node, array_node}
    THEN i..(PayloadOffset(m, i) + 3)
  ELSE i..(PayloadOffset(m, i) - 1)

Frame(m, v) == [i |-> DocBegin(m, v), end |-> DocEnd(m, v)]

Top(st) == st.stack[Len(st.stack)]

Done(st, r) == [st EXCEPT !.pc = "done", !.result = r, !.stack = <<>>]

(* doc.valid() is called: the envelope check, up to the first loop test *)
ValidStart ==
  /\ ~reader.null /\ vst.pc = "idle"
  /\ LET e  == Envelope(mem, reader)
         st == [vst EXCEPT !.reads = EnvelopeReads(mem, reader)]
     IN  vst' = CASE e = "false" -> Done(st, "false")
                  [] e = "ub"    -> [st EXCEPT !.pc = "ub"]
                  [] e = "ok"    -> [st EXCEPT !.pc = "loop",
                                               !.stack = <<Frame(mem, reader)>>]
  /\ UNCHANGED <<doc, mem, reader, res>>

(* the innermost valid() in progress returns true: the caller's ++i *)
ValidReturn(st) ==
  LET below == SubSeq(st.stack, 1, Len(st.stack) - 1)
  IN  IF below = <<>> THEN Done(st, "true")
      ELSE LET f == below[Len(below)]
               l == NodeLength(mem, f.i)
           IN  IF l.ub THEN [st EXCEPT !.pc = "ub"]
               ELSE [st EXCEPT !.stack =
                       [below EXCEPT ![Len(below)].i = f.i + l.len]]

(* one loop test and, if i # end, one loop pass of the innermost valid() *)
ValidStep ==
  /\ vst.pc = "loop"
  /\ LET f == Top(vst)
     IN  IF f.i = f.end THEN vst' = ValidReturn(vst)
         ELSE LET o  == ValidNode(mem, f.i, f.end)
                  st == [vst EXCEPT !.reads = @ \cup NodeReads(mem, f.i, f.end)]
              IN  vst' =
                    CASE o.r = "false" -> Done(st, "false")
                      [] o.r = "ub"    -> [st EXCEPT !.pc = "ub"]
                      [] o.r = "next"  ->
                           [st EXCEPT !.stack[Len(st.stack)].i = f.i + o.adv]
                      [] o.r = "nested" ->
                           LET e  == Envelope(mem, o.sub)
                               s2 == [st EXCEPT !.reads = @ \cup EnvelopeReads(mem, o.sub)]
                           IN  CASE e = "false" -> Done(s2, "false")
                                 [] e = "ub"    -> [s2 EXCEPT !.pc = "ub"]
                                 [] e = "ok"    ->
                                      [s2 EXCEPT !.stack = Append(@, Frame(mem, o.sub))]
  /\ UNCHANGED <<doc, mem, reader, res>>

(* valid() has read outside the memory it was given: it crashes, or goes   *)
(* on with whatever it read and returns either way                         *)
ValidUndefined ==
  /\ vst.pc = "ub"
  /\ \E r \in {"crash", "true", "false"} : vst' = Done(vst, r)
  /\ UNCHANGED <<doc, mem, reader, res>>

(* minibson::Document{mem, Len(mem)}: the builder document made from the   *)
(* buffer the reader is over                                               *)
Deserialize ==
  /\ ~reader.null /\ vst.pc = "idle"
  /\ res.op # "deserialize"
  /\ \E built \in {DocDeserialize(mem, reader)} :
       \E o \in DeserializeOutcomes(built) :
         res' = Op("deserialize", <<>>, 0, 0, o)
  /\ UNCHANGED <<doc, mem, reader, vst>>

(* the reader is over the bytes as they were serialized or given *)
AsGiven == ~reader.null /\ vst.pc = "idle" /\ res.op \in {"serialize", "given"}

(* microbson::Array{mem, Len(mem)}.at<T>(i) *)
ReaderArrayAt(i, T) ==
  /\ AsGiven
  /\ \E o \in Outcomes(ReaderAt(mem, reader, i, T)) :
       res' = Op("at", <<>>, T, i, o)
  /\ UNCHANGED <<doc, mem, reader, vst>>

(* microbson::Array{mem, Len(mem)}.contains<T>(i) *)
ReaderArrayContainsT(i, T) ==
  /\ AsGiven
  /\ \E o \in BoolOutcomes(ReaderArrContainsT(mem, reader, i, T)) :
       res' = Op("containsT", <<>>, T, i, o)
  /\ UNCHANGED <<doc, mem, reader, vst>>

NextReader ==
  \/ \E off \in 0..(Len(mem) - 1), b \in CorruptBytes : Corrupt(off, b)
  \/ ConstructOver
  \/ ValidStart
  \/ ValidStep
  \/ ValidUndefined
  \/ Deserialize
  \/ \E i \in Indexes, T \in QueryTypes : ReaderArrayAt(i, T)
  \/ \E i \in Indexes, T \in QueryTypes : ReaderArrayContainsT(i, T)

SpecReader == InitReader /\ [][NextReader]_vars

----------------------------------------------------------------------------
(* Properties of the builder and of the reader over the builder's output *)

RECURSIVE Same(_, _, _)

(* the outcome out of a reader access over m is the value of the builder   *)
(* node n: equal scalars, strings and bytes; for a nested document or      *)
(* array, entry by entry through the nested reader                         *)
Same(m, out, n) ==
  /\ out.st = "ok"
  /\ CASE n.type = binary_node ->
            /\ out.ret.size = Len(n.val)
            /\ InMemRange(m, out.ret.ptr, out.ret.size)
            /\ SubSeq(m, out.ret.ptr + 1, out.ret.ptr + out.ret.size) = n.val
       [] n.type = document_node ->
            \A k \in DOMAIN n.val :
              Same(m, ReaderGet(m, out.ret, k, n.val[k].type), n.val[k])
       [] n.type = array_node ->
            \A i \in 1..Len(n.val) :
              Same(m, ReaderAt(m, out.ret, i - 1, n.val[i].type), n.val[i])
       [] OTHER -> out.ret = n.val

(* the types C1 ranges over *)
ValueTypes == NodeTypes \ {null_node}

(* C1: round trip.  For every key k of the builder document holding tag X, *)
(* the reader over the serialized bytes answers contains<X>(k) with true   *)
(* and get<X>(k) with the builder's value, nested documents and arrays     *)
(* compared recursively.                                                   *)
C1_RoundTrip ==
  /\ (res.op = "rget" /\ res.key \in DOMAIN doc /\ res.T \in ValueTypes
        /\ doc[res.key].type = res.T)
       => Same(mem, res.out, doc[res.key])
  /\ (res.op = "rcontainsT" /\ res.key \in DOMAIN doc /\ res.T \in ValueTypes
        /\ doc[res.key].type = res.T)
       => (res.out.st = "ok" /\ res.out.ret = TRUE)

(* the size the serialized object reports: the document's, or that of the  *)
(* nested container serialized on its own                                  *)
SourceSize ==
  IF res.T = 0 THEN DocGetSerializedSize(doc) ELSE NodeGetSerializedSize(doc[res.key])

(* C2: length invariant.  serialize never raises "invalid serialization";  *)
(* given a capacity of at least getSerializedSize() it returns exactly     *)
(* getSerializedSize(), stores that number as the int32 length prefix and  *)
(* writes 0x00 as the last of those bytes.                                 *)
C2_LengthInvariant ==
  res.op = "serialize" =>
    /\ res.out.st # "runtime_error"
    /\ res.arg >= SourceSize =>
         /\ res.out.st = "ok"
         /\ res.out.ret = SourceSize
         /\ Len(mem) >= SourceSize
         /\ BytesInt32(SubSeq(mem, 1, 4)) = SourceSize
         /\ mem[SourceSize] = 0

(* a two-field document with a nested array was serialized into a buffer   *)
(* with a byte to spare                                                    *)
C2_Witness ==
  /\ res.op = "serialize" /\ res.T = 0 /\ res.out.st = "ok"
  /\ res.arg = DocGetSerializedSize(doc) + 1
  /\ DocSize(doc) = 2
  /\ \E k \in DOMAIN doc : doc[k].type = array_node

C7_ConstructValidates ==
  res.op = "construct" =>
    /\ res.arg = DocGetSerializedSize(doc) - 1 => res.out.st = "InvalidArgument"
    /\ res.arg > DocGetSerializedSize(doc) => res.out.st = "ok"

(* C9: get<T>(key), on the reader and on the builder: the stored value     *)
(* when the key exists with T's tag, BadCast when it exists with another   *)
(* tag, OutOfRange when no field has the key; nothing else.                *)
C9_GetTagExact ==
  (res.op \in {"rget", "bget"} /\ res.T # Scalar) =>
    IF res.key \notin DOMAIN doc THEN res.out.st = "OutOfRange"
    ELSE IF doc[res.key].type # res.T THEN res.out.st = "BadCast"
    ELSE /\ res.out.st = "ok"
         /\ res.op = "bget" => res.out.ret = doc[res.key].val

(* get<X>(k) on the reader never returned, for a key k the builder holds   *)
(* with tag X                                                              *)
C1_GetNeverReturns ==
  /\ res.op = "rget" /\ res.out.st = "hang"
  /\ res.key \in DOMAIN doc /\ doc[res.key].type = res.T

(* get<T>(k) on the reader never returned, for a key k no field has *)
C9_AbsentKeyNeverReturns ==
  /\ res.op = "rget" /\ res.out.st = "hang"
  /\ res.T # Scalar /\ res.key \notin DOMAIN doc

(* the stored number as a double *)
ToDouble(n) ==
  CASE n.type = double_node -> n.val
    [] n.type = int32_node  -> IntToDouble(n.val)
    [] n.type = int64_node  -> Int64ToDouble(n.val)

Numeric(n) == n.type \in {double_node, int32_node, int64_node}

(* C10: Scalar wildcard.  get<Scalar>(key), at<Scalar>(i) and              *)
(* contains<Scalar>(key), on reader and builder: the stored number as a    *)
(* double for a double, int32 or int64 field; BadCast (false for contains) *)
(* for any other tag; OutOfRange for an absent key or index.               *)
C10_ScalarWildcard ==
  /\ (res.op \in {"rget", "bget"} /\ res.T = Scalar) =>
       IF res.key \notin DOMAIN doc THEN res.out.st = "OutOfRange"
       ELSE IF ~Numeric(doc[res.key]) THEN res.out.st = "BadCast"
       ELSE res.out.st = "ok" /\ res.out.ret = ToDouble(doc[res.key])
  /\ (res.op \in {"rat", "bat"} /\ res.T = Scalar) =>
       LET a == doc[res.key].val
       IN  IF res.arg \notin 0..(Len(a) - 1) THEN res.out.st = "OutOfRange"
           ELSE IF ~Numeric(a[res.arg + 1]) THEN res.out.st = "BadCast"
           ELSE res.out.st = "ok" /\ res.out.ret = ToDouble(a[res.arg + 1])
  /\ (res.op \in {"rcontainsT", "bcontainsT"} /\ res.T = Scalar) =>
       /\ res.out.st = "ok"
       /\ res.out.ret = (res.key \in DOMAIN doc /\ Numeric(doc[res.key]))

----------------------------------------------------------------------------
(* Properties of the reader over arbitrary bytes *)

(* the cursor of the frame that a step moved, before and after *)
CursorAdvances ==
  (vst.pc = "loop" /\ vst'.pc = "loop" /\ Len(vst'.stack) <= Len(vst.stack))
    => vst'.stack[Len(vst'.stack)].i > vst.stack[Len(vst'.stack)].i

(* C3: valid() terminates and returns a boolean for every buffer, since    *)
(* every step that moves the validation cursor moves it strictly forward,  *)
(* so that no offset is visited twice.                                     *)
C3_ValidTerminates == [][CursorAdvances]_vars

(* the cursor is at offset 4 of the second given buffer again, after the   *)
(* field at offset 11 has been read; every read was inside the buffer      *)
C3_CursorBack ==
  /\ res.op = "given" /\ Len(mem) = 20
  /\ vst.pc = "loop" /\ Top(vst).i = 4 /\ 14 \in vst.reads
  /\ \A o \in vst.reads : 0 <= o /\ o < reader.bufferLength

(* valid() has read nothing outside the buffer it was given *)
InBounds == \A o \in vst.reads : 0 <= o /\ o < reader.bufferLength

(* C4: every byte valid() reads lies at an offset in [0, bufferLength). *)
C4_ValidReadsInBounds == vst.pc # "idle" => InBounds

RECURSIVE WellFormed(_, _), Tiles(_, _, _)

(* the length of the key of the field at i, its NUL before end; -1 if none *)
KeyLenBefore(m, i, end) ==
  LET nuls == {j \in (i + 1)..(end - 1) : m[j + 1] = 0}
  IN  IF nuls = {} THEN -1
      ELSE (CHOOSE j \in nuls : \A k \in nuls : j <= k) - (i + 1)

(* the declared extent of the field at i, all of it read before end:       *)
(* type, key, NUL and the payload its type and size field declare; 0 when  *)
(* the field declares none                                                 *)
Extent(m, i, end) ==
  LET kl  == KeyLenBefore(m, i, end)
      pay == i + 1 + kl + 1
      t   == m[i + 1]
      sz  == RdInt32(m, pay)
  IN  IF kl = -1 THEN 0
      ELSE IF t \in {string_node, binary_node, document_node, array_node}
        THEN IF pay + 4 > end \/ sz < 0 THEN 0
             ELSE CASE t = string_node -> pay + 4 + sz - i
                    [] t = binary_node -> pay + 4 + 1 + sz - i
                    [] OTHER           -> pay + sz - i
      ELSE CASE t = double_node  -> pay + 8 - i
             [] t = int64_node   -> pay + 8 - i
             [] t = int32_node   -> pay + 4 - i
             [] t = boolean_node -> pay + 1 - i
             [] OTHER            -> pay - i

(* the fields from i on exactly tile the range up to end, each of a        *)
(* recognised type, each inside the bytes that remain, each nested         *)
(* document or array well formed                                           *)
Tiles(m, i, end) ==
  \/ i = end
  \/ /\ i < end
     /\ m[i + 1] \in NodeTypes
     /\ LET x == Extent(m, i, end)
        IN  /\ x > 0
            /\ x <= end - i
            /\ m[i + 1] \in {document_node, array_node}
                 => WellFormed(m, NestedView(m, i + 1 + KeyLenBefore(m, i, end) + 1))
            /\ Tiles(m, i + x, end)

(* the view v is over a well-formed document: the declared length is       *)
(* within the given length and holds at least the prefix and the           *)
(* terminator, the last byte is 0x00, and the fields tile what is between  *)
WellFormed(m, v) ==
  /\ InMemRange(m, v.data, 4)
  /\ LET len == RdInt32(m, v.data)
     IN  /\ len >= MINIMAL_SIZE_OF_BSON_DOCUMENT
         /\ len <= v.bufferLength
         /\ InMem(m, v.data + len - 1)
         /\ m[v.data + len] = 0
         /\ Tiles(m, v.data + SIZE_OF_BSON_SIZE, v.data + len - 1)

(* C5: validation soundness.  valid() returns true if and only if the      *)
(* envelope is well formed, every field has a recognised type and a        *)
(* declared extent inside the bytes before the terminator, the fields      *)
(* exactly tile the range between prefix and terminator, and every nested  *)
(* document or array is valid in the same way.  Stated of the runs that    *)
(* read inside the buffer, whose result the bytes determine.               *)
C5_ValidIffWellFormed ==
  (vst.pc = "done" /\ InBounds)
    => (vst.result = "true" <=> WellFormed(mem, reader))

(* the builder's own output for a document with an empty key is well       *)
(* formed and valid() has returned false for it                            *)
C5_EmptyKeyRejected ==
  /\ res.op = "serialize" /\ DOMAIN doc = {<<>>}
  /\ vst.pc = "done" /\ vst.result = "false" /\ InBounds
  /\ WellFormed(mem, reader)

RECURSIVE PrefixIn(_, _, _)

(* the offsets of the size fields inside the entries es from entry idx on, *)
(* that entry serialized at offset off                                     *)
PrefixIn(es, idx, off) ==
  IF idx > Len(es) THEN {}
  ELSE LET n   == es[idx].node
           pay == off + SIZE_OF_BSON_TYPE + Len(es[idx].key) + SIZE_OF_ZERO_BYTE
           own == CASE n.type \in {string_node, binary_node} -> pay..(pay + 3)
                    [] n.type = document_node ->
                         pay..(pay + 3) \cup PrefixIn(DocEntries(n.val), 1, pay + 4)
                    [] n.type = array_node ->
                         pay..(pay + 3) \cup PrefixIn(ArrEntries(n.val), 1, pay + 4)
                    [] OTHER -> {}
       IN  own \cup PrefixIn(es, idx + 1, pay + NodeGetSerializedSize(n))

(* the offsets of every length-prefix byte in the serialization of d *)
PrefixOffsets(d) == 0..3 \cup PrefixIn(DocEntries(d), 1, SIZE_OF_BSON_SIZE)

(* C8: corruption detection.  When valid() is true of a serialized         *)
(* document, it is false once any single byte of any length prefix (the    *)
(* document's, a nested document's or array's, a string's or binary's      *)
(* size) has changed.  Stated of the runs that read inside the buffer,     *)
(* whose result the bytes determine.                                       *)
C8_PrefixCorruptionDetected ==
  (/\ vst.pc = "done" /\ InBounds
   /\ res.op = "corrupt"
   /\ res.arg \in PrefixOffsets(doc)
   /\ DocValid(DocSerializeVec(doc).w.buf, reader) = "true")
    => vst.result = "false"

(* in {"a": "x", "b": null} the low byte of the string's size went from 2  *)
(* to 5 and valid() has returned true                                      *)
C8_SizeSwallowsField ==
  /\ DOMAIN doc = {<<97>>, <<98>>}
  /\ res.op = "corrupt" /\ res.arg = 7 /\ res.out.ret = 5
  /\ DocValid(DocSerializeVec(doc).w.buf, reader) = "true"
  /\ vst.pc = "done" /\ vst.result = "true" /\ InBounds

(* at<Scalar>(-1) on the reader returned a number *)
C10_AtMinusOneReturns ==
  /\ res.op = "rat" /\ res.T = Scalar /\ res.arg = -1
  /\ res.out.st = "ok"

----------------------------------------------------------------------------
(* minibson Array: the builder array on its own.  In this specification    *)
(* doc holds the Array's vector arr_, mem the buffer it was serialized     *)
(* into and reader a microbson::Document over that buffer.                 *)

(* minibson Array::size() *)
ArrSize(a) == Len(a)

(* minibson Array::contains<T>(i): the bounds test lets i = size() through *)
(* to arr_[i]; a negative i converts to a huge size_t                      *)
BuilderArrContainsT(a, i, T) ==
  IF i < 0 \/ Len(a) < i THEN Ok(FALSE)
  ELSE IF i = Len(a) THEN Fail("ub")
  ELSE Ok(a[i + 1].type = T)

(* the vector after arr_.erase(arr_.begin() + i) *)
Remove(a, i) == SubSeq(a, 1, i) \o SubSeq(a, i + 2, Len(a))

(* minibson Array::erase(i): [arr, out].  The throw follows the if, not    *)
(* its else: the call raises OutOfRange whether or not it erased           *)
ArrErase(a, i) ==
  [arr |-> IF 0 <= i /\ i < Len(a) THEN Remove(a, i) ELSE a,
   out |-> Fail("OutOfRange")]

(* for (it = arr.begin(); it != arr.end(); ++it): the key() and type() of  *)
(* every position visited                                                  *)
ArrIterate(a) ==
  [n \in 1..Len(a) |-> [key |-> to_string(n - 1), type |-> a[n].type]]

(* the most elements pushed onto the array *)
MaxElems == 3

(* the most elements of an array holding nulls only: enough for ordinal    *)
(* keys of two digits                                                      *)
MaxOrdinals == 11

(* the values push_back is called with, as positions in SampleValues:      *)
(* a double, an int32, null, the strings "x" and "x\0y", a binary and an   *)
(* array                                                                   *)
PushValues == {1, 2, 5, 6, 7, 8, 10}

InitArray ==
  /\ doc = <<>>
  /\ mem = <<>>
  /\ reader = NullView
  /\ res = Op("init", <<>>, 0, 0, Ok(0))
  /\ vst = Idle

ArrBuilding == mem = <<>> /\ res.op \in {"init", "push_back", "erase"}

(* arr.push_back(value) *)
PushBack(i) ==
  /\ ArrBuilding
  /\ \/ Len(doc) < MaxElems
     \/ /\ Len(doc) < MaxOrdinals
        /\ SampleValues[i].type = null_node
        /\ \A n \in 1..Len(doc) : doc[n].type = null_node
  /\ doc' = Append(doc, SampleValues[i])
  /\ res' = Op("push_back", <<>>, 0, 0, Ok(0))
  /\ UNCHANGED <<mem, reader, vst>>

(* arr.erase(i) *)
ArrayErase(i) ==
  /\ ArrBuilding
  /\ doc' = ArrErase(doc, i).arr
  /\ res' = Op("erase", <<>>, 0, i, ArrErase(doc, i).out)
  /\ UNCHANGED <<mem, reader, vst>>

(* arr.at<T>(i) *)
ArrayAt(i, T) ==
  /\ ArrBuilding
  /\ \E o \in Outcomes(BuilderAt(doc, i, T)) : res' = Op("at", <<>>, T, i, o)
  /\ UNCHANGED <<doc, mem, reader, vst>>

(* arr.contains<T>(i) *)
ArrayContainsT(i, T) ==
  /\ ArrBuilding
  /\ \E o \in BoolOutcomes(BuilderArrContainsT(doc, i, T)) :
       res' = Op("containsT", <<>>, T, i, o)
  /\ UNCHANGED <<doc, mem, reader, vst>>

(* arr.size() *)
ArraySize ==
  /\ ArrBuilding
  /\ res' = Op("size", <<>>, 0, 0, Ok(ArrSize(doc)))
  /\ UNCHANGED <<doc, mem, reader, vst>>

(* a loop from arr.begin() to arr.end() *)
ArrayIterate ==
  /\ ArrBuilding
  /\ res' = Op("iterate", <<>>, 0, 0, Ok(ArrIterate(doc)))
  /\ UNCHANGED <<doc, mem, reader, vst>>

(* arr.serialize(buf, capacity) into a caller's buffer of capacity bytes *)
ArraySerialize(capacity) ==
  /\ ArrBuilding
  /\ capacity >= 0
  /\ \E j \in JunkBytes :
     LET r == ArrSerialize(doc, Filled(capacity, j), capacity)
     IN  /\ mem' = r.w.buf
         /\ res' = Op("serialize", <<>>, 0, capacity,
                      IF r.w.exc # "" THEN Fail(r.w.exc)
                      ELSE IF r.w.ovf THEN Fail("ub") ELSE Ok(r.n))
  /\ UNCHANGED <<doc, reader, vst>>

(* arr.serialize(): the std::vector overload *)
ArraySerializeVec ==
  /\ ArrBuilding
  /\ LET r == ArrSerializeVec(doc)
     IN  /\ mem' = r.w.buf
         /\ res' = Op("serialize", <<>>, 0, ArrGetSerializedSize(doc),
                      IF r.w.exc # "" THEN Fail(r.w.exc)
                      ELSE IF r.w.ovf THEN Fail("ub") ELSE Ok(r.n))
  /\ UNCHANGED <<doc, reader, vst>>

(* microbson::Document{buffer, length} over the bytes serialize returned *)
ArrayConstruct ==
  /\ Serialized
  /\ reader' = View(0, Returned)
  /\ res' = Op("construct", <<>>, 0, Returned, Ok(0))
  /\ UNCHANGED <<doc, mem, vst>>

ArrReading == ~reader.null /\ res.op = "construct"

(* doc.size() on the reader *)
ArrayReadSize ==
  /\ ArrReading
  /\ \E o \in Outcomes(ReaderSize(mem, reader)) :
       res' = Op("rsize", <<>>, 0, 0, o)
  /\ UNCHANGED <<doc, mem, reader, vst>>

(* a loop from doc.begin() to doc.end() on the reader *)
ArrayReadFields ==
  /\ ArrReading
  /\ \E o \in Outcomes(ReaderFields(mem, reader)) :
       res' = Op("rfields", <<>>, 0, 0, o)
  /\ UNCHANGED <<doc, mem, reader, vst>>

NextArray ==
  \/ \E i \in PushValues : PushBack(i)
  \/ \E i \in Indexes : ArrayErase(i)
  \/ \E i \in Indexes, T \in QueryTypes : ArrayAt(i, T)
  \/ \E i \in Indexes, T \in NodeTypes : ArrayContainsT(i, T)
  \/ ArraySize
  \/ ArrayIterate
  \/ \E c \in {ArrGetSerializedSize(doc) - 1, ArrGetSerializedSize(doc),
               ArrGetSerializedSize(doc) + 1} : ArraySerialize(c)
  \/ ArraySerializeVec
  \/ ArrayConstruct
  \/ ArrayReadSize
  \/ ArrayReadFields

SpecArray == InitArray /\ [][NextArray]_vars

----------------------------------------------------------------------------
(* Properties of the builder Array *)

(* the reader's node at offset p is element n of the array: its key is the *)
(* decimal n - 1 and it has the element's tag and value                    *)
FieldIs(m, p, a, n) ==
  /\ NodeKeyLen(m, p) # -1
  /\ NodeKey(m, p) = to_string(n - 1)
  /\ NodeType(m, p) = a[n].type
  /\ Same(m, NodeValue(m, p, a[n].type), a[n])

(* C11: array order and ordinal keys.  An array holding v0..v(n-1) in push *)
(* order reports size() n; iteration visits n positions keyed "0", "1",    *)
(* ... with the tags pushed; at<T>(i) with vi's tag returns vi; a reader   *)
(* Document over the serialized bytes has exactly n fields, keyed by the   *)
(* decimal positions in that order, each with the tag and value pushed.    *)
C11_ArrayOrder ==
  /\ res.op = "size" => res.out.ret = Len(doc)
  /\ res.op = "iterate" =>
       /\ Len(res.out.ret) = Len(doc)
       /\ \A n \in 1..Len(doc) :
            /\ res.out.ret[n].key = to_string(n - 1)
            /\ res.out.ret[n].type = doc[n].type
  /\ (res.op = "at" /\ 0 <= res.arg /\ res.arg < Len(doc)
        /\ res.T = doc[res.arg + 1].type) =>
       (res.out.st = "ok" /\ res.out.ret = doc[res.arg + 1].val)
  /\ res.op = "rsize" => (res.out.st = "ok" /\ res.out.ret = Len(doc))
  /\ res.op = "rfields" =>
       /\ res.out.st = "ok"
       /\ Len(res.out.ret) = Len(doc)
       /\ \A n \in 1..Len(doc) : FieldIs(mem, res.out.ret[n], doc, n)

(* a reader over the array ["x\0y"] has one field keyed "0" with the tag   *)
(* of a string, and its value is not the string pushed                     *)
C11_StringCutAtNul ==
  /\ res.op = "rfields" /\ res.out.st = "ok"
  /\ Len(doc) = 1 /\ Len(res.out.ret) = 1
  /\ doc[1].type = string_node /\ doc[1].val = <<120, 0, 121>>
  /\ NodeKey(mem, res.out.ret[1]) = to_string(0)
  /\ NodeType(mem, res.out.ret[1]) = string_node
  /\ NodeValue(mem, res.out.ret[1], string_node).ret = <<120>>

----------------------------------------------------------------------------
(* Properties of the builder Document *)

RECURSIVE ChildSize(_), EntriesSize(_, _), ElementsSize(_, _)

(* the child size C12 gives for a value of each type *)
ChildSize(n) ==
  CASE n.type = double_node   -> 8
    [] n.type = int32_node    -> 4
    [] n.type = int64_node    -> 8
    [] n.type = boolean_node  -> 1
    [] n.type = null_node     -> 0
    [] n.type = string_node   -> 4 + Len(n.val) + 1
    [] n.type = binary_node   -> 4 + 1 + Len(n.val)
    [] n.type = document_node -> 4 + EntriesSize(n.val, DOMAIN n.val) + 1
    [] n.type = array_node    -> 4 + ElementsSize(n.val, Len(n.val)) + 1

(* the sum over the entries with keys in S of 1 + key bytes + 1 + child *)
EntriesSize(d, S) ==
  IF S = {} THEN 0
  ELSE LET k == CHOOSE x \in S : TRUE
       IN  1 + Len(k) + 1 + ChildSize(d[k]) + EntriesSize(d, S \ {k})

(* the same sum over the first n elements, keyed by their decimal index *)
ElementsSize(a, n) ==
  IF n = 0 THEN 0
  ELSE 1 + Len(to_string(n - 1)) + 1 + ChildSize(a[n]) + ElementsSize(a, n - 1)

(* the document of the example: int32 "a" = 1, string "b" = "text",        *)
(* document "c" = {"x": int32 3}                                           *)
ExampleDocument ==
  (<<97>> :> Node(int32_node, 1))
    @@ (<<98>> :> Node(string_node, <<116, 101, 120, 116>>))
    @@ (<<99>> :> Node(document_node, (<<120>> :> Node(int32_node, 3))))

(* C12: size formula.  getSerializedSize() of a builder Document is 4 +    *)
(* the sum over its entries of (1 + key byte count + 1 + child size) + 1,  *)
(* with child size 8, 4, 8, 1, 0 for double, int32, int64, boolean, null,  *)
(* 4 + byte count + 1 for a string, 4 + 1 + byte count for a binary and    *)
(* the same formula for a nested document or array (keys the decimal       *)
(* indexes); the example document has size 39.  Stated of the document at  *)
(* every state and of the size the vector overload of serialize() asked    *)
(* getSerializedSize() for.                                                *)
C12_SizeFormula ==
  /\ DocGetSerializedSize(doc) = 4 + EntriesSize(doc, DOMAIN doc) + 1
  /\ (res.op = "serialize" /\ res.T = 0 /\ res.out.st = "ok") =>
       res.out.ret = 4 + EntriesSize(doc, DOMAIN doc) + 1
  /\ DocGetSerializedSize(ExampleDocument) = 39

(* the size was taken of a document with the empty key, a string holding a *)
(* NUL and a nested array                                                  *)
C12_Witness ==
  /\ res.op = "serialize" /\ res.T = 0 /\ res.out.st = "ok"
  /\ res.arg = DocGetSerializedSize(doc)
  /\ DocSize(doc) = 2
  /\ <<>> \in DOMAIN doc /\ doc[<<>>].type = array_node
  /\ \E k \in DOMAIN doc : doc[k].type = string_node /\ Len(doc[k].val) = 3

(* the step is a serialize(buf, capacity) that raised InvalidArgument *)
Refused == res'.op = "serialize" /\ res'.out.st = "InvalidArgument"

(* C13: capacity check.  serialize(buf, capacity) of a builder Document,   *)
(* or of a nested Document or Array serialized on its own, raises          *)
(* InvalidArgument if and only if capacity < getSerializedSize(); when it  *)
(* raises, every byte of buf is what it was before the call and the value  *)
(* tree is unchanged.                                                      *)
C13_CapacityCheck ==
  [][res'.op = "serialize" =>
       /\ Refused <=> res'.arg < SourceSize'
       /\ Refused =>
            /\ \E j \in JunkBytes : mem' = Filled(res'.arg, j)
            /\ doc' = doc]_vars

(* serialize of a nested array on its own was refused a buffer one byte    *)
(* short                                                                   *)
C13_Witness ==
  /\ res.op = "serialize" /\ res.out.st = "InvalidArgument"
  /\ res.arg = SourceSize - 1
  /\ res.T = array_node
  /\ DocSize(doc) = 2

(* the nodes a and b have the same tag and the same value *)
SameNode(a, b) == a.type = b.type /\ a.val = b.val

(* every key but key holds in the document after the step what it held     *)
(* before it, or is absent on both sides                                   *)
OthersKept(key) ==
  \A k \in Keys \ {key} :
    /\ (k \in DOMAIN doc') <=> (k \in DOMAIN doc)
    /\ k \in DOMAIN doc => SameNode(doc'[k], doc[k])

(* C14: set is an upsert that replaces.  After set(k, v) contains(k)       *)
(* holds, the node at k has v's tag and value whatever k held before,      *)
(* size() has grown by 1 if k was absent and is unchanged otherwise, and   *)
(* every other key has kept its tag and value.                             *)
C14_SetReplaces ==
  [][\A key \in Keys, i \in 1..Len(SampleValues) :
       (res'.op = "set" /\ Set(key, i)) =>
         /\ BuilderContains(doc', key).ret
         /\ BuilderContainsT(doc', key, SampleValues[i].type).ret
         /\ SameNode(doc'[key], SampleValues[i])
         /\ DocSize(doc') = DocSize(doc) + (IF key \in DOMAIN doc THEN 0 ELSE 1)
         /\ OthersKept(key)]_vars

(* a set has acted on a full document: the key "a" holds a string and the  *)
(* key "b" an int32                                                        *)
C14_Witness ==
  /\ res.op = "set"
  /\ DocSize(doc) = MaxFields
  /\ <<97>> \in DOMAIN doc /\ doc[<<97>>].type = string_node
  /\ <<98>> \in DOMAIN doc /\ doc[<<98>>].type = int32_node

(* C15: Document erase.  After erase(key) contains(key) is false and       *)
(* get<T>(key) raises OutOfRange for every T, size() has dropped by 1 if   *)
(* the key was present, and every other entry has kept its tag and value;  *)
(* erasing an absent key raises nothing and leaves the document unchanged. *)
C15_EraseRemovesOne ==
  [][\A key \in Keys :
       (res'.op = "erase" /\ Erase(key)) =>
         /\ res'.out.st = "ok"
         /\ ~BuilderContains(doc', key).ret
         /\ \A T \in QueryTypes :
              /\ BuilderGet(doc', key, T).st = "OutOfRange"
              /\ ~BuilderContainsT(doc', key, T).ret
         /\ DocSize(doc') = DocSize(doc) - (IF key \in DOMAIN doc THEN 1 ELSE 0)
         /\ OthersKept(key)
         /\ key \notin DOMAIN doc => DOMAIN doc' = DOMAIN doc]_vars

(* an erase has acted and the document holds the key "b" alone, with a     *)
(* nested document                                                         *)
C15_Witness ==
  /\ res.op = "erase"
  /\ DOMAIN doc = {<<98>>}
  /\ doc[<<98>>].type = document_node

(* C16: Array erase.  erase(i) with 0 <= i < size() removes element i, the *)
(* later elements move down by one, size() drops by 1 and the call raises  *)
(* nothing; erase(i) with i >= size() raises OutOfRange and leaves the     *)
(* array unchanged.                                                        *)
C16_ArrayErase ==
  [][\A i \in Indexes :
       ArrayErase(i) =>
         /\ (0 <= i /\ i < Len(doc)) =>
              /\ res'.out.st = "ok"
              /\ Len(doc') = Len(doc) - 1
              /\ \A n \in 1..Len(doc') :
                   SameNode(doc'[n], IF n <= i THEN doc[n] ELSE doc[n + 1])
         /\ i >= Len(doc) =>
              /\ res'.out.st = "OutOfRange"
              /\ Len(doc') = Len(doc)
              /\ \A n \in 1..Len(doc) : SameNode(doc'[n], doc[n])]_vars

(* erase(1) on an array of three has raised OutOfRange and left two        *)
(* elements                                                                *)
C16_EraseInRangeRaises ==
  /\ res.op = "erase" /\ res.arg = 1
  /\ res.out.st = "OutOfRange"
  /\ Len(doc) = 2
  /\ doc[1].type = double_node /\ doc[2].type = binary_node

(* the index i names an element of the array a *)
InRange(a, i) == 0 <= i /\ i < Len(a)

(* C17: Array at and contains.  at<T>(i) returns element i's value when    *)
(* 0 <= i < size() and the element has T's tag (for Scalar: a numeric tag, *)
(* returned as a double), raises BadCast when the element has another tag  *)
(* and OutOfRange for every index outside 0..size()-1, i == size()         *)
(* included; contains<T>(i) returns false for every i >= size().           *)
C17_ArrayAtBounds ==
  /\ (res.op = "at" /\ InRange(doc, res.arg)) =>
       LET n == doc[res.arg + 1]
       IN  IF res.T = Scalar
             THEN IF Numeric(n)
                    THEN res.out.st = "ok" /\ res.out.ret = ToDouble(n)
                    ELSE res.out.st = "BadCast"
             ELSE IF n.type = res.T
                    THEN res.out.st = "ok" /\ res.out.ret = n.val
                    ELSE res.out.st = "BadCast"
  /\ (res.op = "at" /\ ~InRange(doc, res.arg)) => res.out.st = "OutOfRange"
  /\ (res.op = "containsT" /\ res.arg >= Len(doc)) =>
       (res.out.st = "ok" /\ res.out.ret = FALSE)

(* at<int32_t>(2) on an array of two elements did not raise OutOfRange: it *)
(* read arr_[2] and went wrong there                                       *)
C17_AtSizeReadsPastEnd ==
  /\ res.op = "at" /\ res.T = int32_node
  /\ Len(doc) = 2 /\ res.arg = 2
  /\ res.out.st = "crash"

----------------------------------------------------------------------------
(* Properties of the builder made from a buffer *)

(* the builder document d holds one node per field of the reader v over m, *)
(* under the field's key, with the field's tag and value                   *)
TreeHolds(m, v, d) ==
  LET f == ReaderFields(m, v)
  IN  /\ f.st = "ok"
      /\ DocSize(d) = Len(f.ret)
      /\ \A n \in 1..Len(f.ret) :
           LET p == f.ret[n]
           IN  /\ NodeKey(m, p) \in DOMAIN d
               /\ d[NodeKey(m, p)].type = NodeType(m, p)
               /\ Same(m, NodeValue(m, p, NodeType(m, p)), d[NodeKey(m, p)])

(* C18: building from a buffer.  minibson::Document{buffer, length} raises *)
(* InvalidArgument exactly when the reader's valid() is false for the      *)
(* buffer; when valid() is true construction succeeds and the tree holds,  *)
(* for every field, a node with the field's tag and value, nested          *)
(* containers converted recursively.  Stated for the buffers on which      *)
(* valid() returns without reading outside the buffer.                     *)
C18_BuildIffValid ==
  res.op = "deserialize" =>
    LET r == DocValid(mem, reader)
    IN  /\ r = "false" => res.out.st = "InvalidArgument"
        /\ r = "true" =>
             /\ res.out.st = "ok"
             /\ TreeHolds(mem, reader, res.out.ret)

(* valid() is true of the buffer holding a binary field of size -1, and    *)
(* building a document from it ends the program                            *)
C18_NegativeBinaryEndsProgram ==
  /\ res.op = "deserialize"
  /\ mem = <<13, 0, 0, 0, 5, 97, 97, 0, 255, 255, 255, 255, 0>>
  /\ DocValid(mem, reader) = "true"
  /\ res.out.st = "crash"

----------------------------------------------------------------------------
(* Properties of Node::length and of the traversals built on it *)

(* the payload length C19 gives for the field at offset p, whose payload   *)
(* starts at offset q                                                      *)
PayloadLength(m, p, q) ==
  CASE NodeType(m, p) = double_node  -> 8
    [] NodeType(m, p) = int32_node   -> 4
    [] NodeType(m, p) = int64_node   -> 8
    [] NodeType(m, p) = boolean_node -> 1
    [] NodeType(m, p) = null_node    -> 0
    [] NodeType(m, p) = string_node  -> 4 + RdInt32(m, q)
    [] NodeType(m, p) = binary_node  -> 4 + 1 + RdInt32(m, q)
    [] NodeType(m, p) \in {document_node, array_node} -> RdInt32(m, q)

(* valid() is in its loop with the cursor on a field: the type byte and    *)
(* the key up to its NUL lie in the buffer, and length() returns           *)
AtField ==
  /\ vst.pc = "loop"
  /\ Top(vst).i # Top(vst).end
  /\ InMem(mem, Top(vst).i)
  /\ NodeKeyLen(mem, Top(vst).i) # -1
  /\ ~NodeLength(mem, Top(vst).i).ub

(* C19: Node::length() is 1 + key byte count + 1 + payload length for      *)
(* every field with a recognised type byte, whatever its key (the empty    *)
(* key included): payload 8, 4, 8, 1, 0 for double, int32, int64, boolean, *)
(* null, 4 + declared size for a string, 4 + 1 + declared size for a       *)
(* binary, the declared length for a document or array; and it is 0        *)
(* exactly when the type byte is not recognised.                           *)
C19_LengthFormula ==
  AtField =>
    LET p  == Top(vst).i
        kl == NodeKeyLen(mem, p)
    IN  NodeLength(mem, p).len =
          IF NodeType(mem, p) \in NodeTypes
            THEN 1 + kl + 1 + PayloadLength(mem, p, p + 1 + kl + 1)
            ELSE 0

(* the cursor is on an int32 field with the empty key, and length() is 0 *)
C19_EmptyKeyLengthZero ==
  /\ AtField
  /\ NodeType(mem, Top(vst).i) = int32_node
  /\ NodeKeyLen(mem, Top(vst).i) = 0
  /\ NodeLength(mem, Top(vst).i).len = 0

----------------------------------------------------------------------------
(* microbson: the traversals of a reader, one iterator step at a time.     *)
(* The buffers are those of InitReader.  vst holds the traversal in        *)
(* progress: the call (op, key, n), the iterator i, end() and the counter  *)
(* of std::distance or of at.                                              *)

(* the highest value of std::distance's counter the model tells apart *)
MaxDistance == 6

(* size() is std::distance(begin(), end()); contains(key) and get<T>(key)  *)
(* are std::find_if(begin(), end(), key equal); at<T>(n) is the loop       *)
(* for (counter = 0; iter != end() && counter < n; ++iter, ++counter)      *)
WalkStart(op, key, n) ==
  /\ ~reader.null /\ vst.pc = "idle"
  /\ ~DocLength(mem, reader).ub
  /\ vst' = [pc |-> "walk", op |-> op, key |-> key, n |-> n,
             i |-> DocBegin(mem, reader), end |-> DocEnd(mem, reader),
             count |-> 0, result |-> ""]
  /\ UNCHANGED <<doc, mem, reader, res>>

(* the traversal returns r *)
WalkDone(r) == vst' = [vst EXCEPT !.pc = "done", !.result = r]

(* one loop test and, if the loop goes on, one ++iter: offset_ +=           *)
(* Node{offset_}.length().  A read outside the buffer crashes or goes on   *)
(* with what it met                                                        *)
WalkStep ==
  /\ vst.pc = "walk"
  /\ IF vst.i = vst.end THEN WalkDone("end")
     ELSE IF vst.op = "at" /\ ~(vst.count < vst.n) THEN WalkDone("found")
     ELSE IF vst.op \in {"contains", "get"} /\ NodeKeyLen(mem, vst.i) = -1
       THEN \E r \in {"crash", "garbage"} : WalkDone(r)
     ELSE IF vst.op \in {"contains", "get"} /\ NodeKey(mem, vst.i) = vst.key
       THEN WalkDone("found")
     ELSE IF NodeLength(mem, vst.i).ub
       THEN \E r \in {"crash", "garbage"} : WalkDone(r)
     ELSE vst' = [vst EXCEPT
                    !.i = @ + NodeLength(mem, vst.i).len,
                    !.count = IF vst.op \in {"size", "at"} /\ @ < MaxDistance
                                THEN @ + 1 ELSE @]
  /\ UNCHANGED <<doc, mem, reader, res>>

NextWalk ==
  \/ ConstructOver
  \/ WalkStart("size", <<>>, 0)
  \/ \E key \in Keys : WalkStart("contains", key, 0)
  \/ \E key \in Keys : WalkStart("get", key, 0)
  \/ \E n \in Indexes : WalkStart("at", <<>>, n)
  \/ WalkStep

(* a traversal in progress goes on: its loop is never suspended *)
SpecWalk == InitReader /\ [][NextWalk]_vars /\ WF_vars(WalkStep)

(* C20: a field whose length() is 0 stops the traversal.  Every size(),    *)
(* contains(), get() and at() that has started returns: the iterator never *)
(* stays on one offset for ever.                                           *)
C20_TraversalFinishes == (vst.pc = "walk") ~> (vst.pc = "done")

(* size() is on the first field of the buffer, whose length() is 0, after  *)
(* MaxDistance increments                                                  *)
C20_IteratorStays ==
  /\ vst.pc = "walk" /\ vst.op = "size"
  /\ vst.i = DocBegin(mem, reader)
  /\ vst.count = MaxDistance
  /\ NodeLength(mem, vst.i).len = 0

----------------------------------------------------------------------------
(* Properties of the reader's queries *)

(* C21: the reader's size() is the number of top-level fields of the       *)
(* document it is over, counted by stepping from offset 4 by each field's  *)
(* length up to the declared length - 1; fields of nested containers are   *)
(* not counted.  A default-constructed reader has empty() true, size() 0,  *)
(* length() 0 and begin() = end(); a reader over a serialized document has *)
(* empty() false.                                                          *)
C21_ReaderSize ==
  /\ res.op = "rsize" =>
       /\ res.out.st = "ok"
       /\ res.out.ret = IF reader.null THEN 0 ELSE DocSize(doc)
  /\ res.op = "rempty" => res.out.ret = reader.null
  /\ res.op = "rlength" /\ reader.null => res.out.st = "ok" /\ res.out.ret = 0
  /\ reader.null => DocBegin(mem, reader) = DocEnd(mem, reader)

(* size() was called on the reader over a document with a field under the  *)
(* empty key, and never returns                                            *)
C21_SizeNeverReturns ==
  /\ res.op = "rsize"
  /\ <<>> \in DOMAIN doc
  /\ res.out.st = "hang"

(* C22: on a reader over a serialized document, contains(key) is true      *)
(* exactly when a top-level field has that key; contains<T>(key) is true   *)
(* exactly when the first field with that key has the wire tag T asks for, *)
(* and false for an absent key; and contains<T>(key) is true exactly when  *)
(* get<T>(key) returns without raising.                                    *)
C22_ContainsAgrees ==
  /\ res.op = "rcontains" =>
       /\ res.out.st = "ok"
       /\ res.out.ret = (res.key \in DOMAIN doc)
  /\ res.op = "rcontainsT" =>
       /\ res.out.st = "ok"
       /\ res.out.ret = (/\ res.key \in DOMAIN doc
                         /\ TypeMatches(doc[res.key].type, res.T))
       /\ res.out.ret = (ReaderGet(mem, reader, res.key, res.T).st = "ok")

(* contains("a") was called on the reader over a document holding the keys *)
(* "" and "a", and never returns                                           *)
C22_ContainsNeverReturns ==
  /\ res.op = "rcontains"
  /\ res.key = <<97>>
  /\ DOMAIN doc = {<<>>, <<97>>}
  /\ res.out.st = "hang"

----------------------------------------------------------------------------
(* Properties of the reader Array *)

RECURSIVE FieldOffsets(_, _, _)

(* the offsets of the fields of a well-formed document from i up to end,   *)
(* in the order of the bytes: each field begins where the declared extent  *)
(* of the one before it ends                                               *)
FieldOffsets(m, i, end) ==
  IF i >= end THEN <<>>
  ELSE <<i>> \o FieldOffsets(m, i + Extent(m, i, end), end)

(* the fields of the well-formed buffer the reader is over *)
Fields == FieldOffsets(mem, DocBegin(mem, reader), DocEnd(mem, reader))

(* the outcome out is the outcome e: the same exception, or the same value *)
SameOutcome(out, e) == out.st = e.st /\ (e.st = "ok" => out.ret = e.ret)

(* C23: the reader's Array::at<T>(i) is positional.  On a well-formed      *)
(* buffer, for 0 <= i < size() it returns the value of the i-th field in   *)
(* the order of the bytes whatever the key of that field, or raises        *)
(* BadCast when the field's tag is not T's; for i >= size() it raises      *)
(* OutOfRange.                                                             *)
C23_AtPositional ==
  res.op = "at" /\ res.arg >= 0 /\ WellFormed(mem, reader) =>
    IF res.arg < Len(Fields)
      THEN SameOutcome(res.out, NodeValue(mem, Fields[res.arg + 1], res.T))
      ELSE res.out.st = "OutOfRange"

(* at<int32_t>(1) on the one-field buffer {"": -2} returns a value *)
C23_AtPastEndReturns ==
  /\ res.op = "at" /\ res.arg = 1 /\ res.T = int32_node
  /\ WellFormed(mem, reader)
  /\ Len(Fields) = 1
  /\ NodeKey(mem, Fields[1]) = <<>>
  /\ res.out.st = "ok" /\ res.out.ret = -2

----------------------------------------------------------------------------
(* Properties of a NodeValue serialized on its own *)

(* C24: serialize(buffer, capacity) of a single NodeValue raises           *)
(* InvalidArgument when capacity < getSerializedSize(); otherwise it       *)
(* returns getSerializedSize() and changes only the buffer offsets         *)
(* 0 .. getSerializedSize() - 1.  A binary value is written as its int32   *)
(* byte count, the subtype byte 0x00 and the raw bytes, and nothing more;  *)
(* a null value writes no byte.                                            *)
C24_ValueSerialize ==
  res.op = "serializeValue" =>
    LET n    == doc[res.key]
        size == NodeGetSerializedSize(n)
    IN  IF res.arg < size THEN res.out.st = "InvalidArgument"
        ELSE /\ res.out.st = "ok"
             /\ res.out.ret = size
             /\ \A i \in size..(Len(mem) - 1) : mem[i + 1] \in JunkBytes
             /\ n.type = binary_node =>
                  SubSeq(mem, 1, size) = Int32Bytes(Len(n.val)) \o <<0>> \o n.val
             /\ n.type = null_node => size = 0

(* a binary value of two bytes was serialized into a buffer of one byte    *)
(* more than its size, and that byte, at offset getSerializedSize(), has   *)
(* become 0x00                                                             *)
C24_BinaryWritesPastSize ==
  /\ res.op = "serializeValue"
  /\ doc[res.key].type = binary_node
  /\ res.arg = NodeGetSerializedSize(doc[res.key]) + 1
  /\ res.out.st = "ok"
  /\ mem[res.arg] = 0

----------------------------------------------------------------------------
(* Properties of valid() on short and on hand-made buffers *)

(* the int32 the buffer begins with *)
Declared == RdInt32(mem, reader.data)

(* C25: the envelope minimum.  valid() returns false for every buffer      *)
(* whose declared length is less than 5, zero and negative values          *)
(* included, and for every given buffer length less than 5; it returns     *)
(* true for the five-byte empty document.                                  *)
C25_EnvelopeMinimum ==
  vst.pc = "done" =>
    /\ reader.bufferLength < 5 \/ Declared < 5 => vst.result = "false"
    /\ mem = <<5, 0, 0, 0, 0>> => vst.result = "true"

(* valid() was called on a buffer whose declared length is negative, and   *)
(* ended the program                                                       *)
C25_NegativeLengthCrashes ==
  /\ vst.pc = "done"
  /\ Declared < 0
  /\ vst.result = "crash"

----------------------------------------------------------------------------
(* Properties relating the builder's output to the reader and back *)

(* the reader is over the builder's bytes with the length serialize        *)
(* returned                                                                *)
OverOutput == Reading /\ reader.bufferLength = DocGetSerializedSize(doc)

(* C26: every byte sequence the builder produces is accepted by the        *)
(* reader.  For every builder document reached by set and erase, with any  *)
(* keys (the empty key included) and any nested documents and arrays, a    *)
(* reader over the serialized bytes with the returned length has valid()   *)
(* true and size() equal to the builder's size().                          *)
C26_BuilderOutputAccepted ==
  /\ res.op = "valid" /\ OverOutput => res.out.st = "true"
  /\ res.op = "rsize" /\ OverOutput =>
       res.out.st = "ok" /\ res.out.ret = DocSize(doc)

(* valid() is false of the serialized one-field document whose key is the  *)
(* empty key                                                               *)
C26_EmptyKeyOutputRejected ==
  /\ res.op = "valid" /\ OverOutput
  /\ DOMAIN doc = {<<>>}
  /\ doc[<<>>].type = int32_node
  /\ res.out.st = "false"

(* C27: re-serialization is the identity on builder output.  For every     *)
(* builder document T, a builder document constructed from T.serialize()   *)
(* is constructed without an exception, and its serialize() gives the      *)
(* bytes of T.serialize(): the same length, field order and bytes.         *)
C27_ReserializeIdentity ==
  res.op = "build" /\ mem = DocSerializeVec(doc).w.buf =>
    /\ res.out.st = "ok"
    /\ DocSerializeVec(res.out.ret).w.buf = mem

(* the document {"a": "x\0y"} was rebuilt from its own output, and the     *)
(* rebuilt document serializes to fewer bytes                              *)
C27_RebuiltStringShorter ==
  /\ res.op = "build" /\ mem = DocSerializeVec(doc).w.buf
  /\ DOMAIN doc = {<<97>>}
  /\ doc[<<97>>].type = string_node /\ doc[<<97>>].val = <<120, 0, 121>>
  /\ res.out.st = "ok"
  /\ Len(DocSerializeVec(res.out.ret).w.buf) < Len(mem)

(* C28: on a reader Array, existence by index and access by index agree.   *)
(* For every buffer on which valid() is true, whatever the keys of its     *)
(* fields, and every index i >= 0, contains<T>(i) is true exactly when     *)
(* at<T>(i) returns a value without raising.                               *)
C28_ContainsAgreesWithAt ==
  res.op = "containsT" /\ res.arg >= 0 /\ DocValid(mem, reader) = "true" =>
    /\ res.out.st = "ok"
    /\ res.out.ret = (ReaderAt(mem, reader, res.arg, res.T).st = "ok")

(* contains<int32_t>(0) is false on the one-field buffer {"a": -2}, on     *)
(* which at<int32_t>(0) returns -2                                         *)
C28_ContainsFalseAtReturns ==
  /\ res.op = "containsT" /\ res.arg = 0 /\ res.T = int32_node
  /\ DocValid(mem, reader) = "true"
  /\ NodeKey(mem, DocBegin(mem, reader)) = <<97>>
  /\ res.out.st = "ok" /\ res.out.ret = FALSE
  /\ ReaderAt(mem, reader, 0, int32_node).st = "ok"
  /\ ReaderAt(mem, reader, 0, int32_node).ret = -2

RECURSIVE StringsInside(_, _)

(* every field of the view v over m has a strictly positive length; every  *)
(* string field declares at least one byte, the last byte it declares is   *)
(* 0x00, and the C string the typed accessors read from it ends inside the *)
(* field; the same for the fields of every nested document and array       *)
StringsInside(m, v) ==
  LET f == ReaderFields(m, v)
  IN  /\ f.st = "ok"
      /\ \A n \in 1..Len(f.ret) :
           LET p == f.ret[n]
               q == PayloadOffset(m, p)
               l == NodeLength(m, p).len
           IN  /\ l > 0
               /\ NodeType(m, p) = string_node =>
                    /\ RdInt32(m, q) >= 1
                    /\ InMem(m, q + SIZE_OF_BSON_SIZE + RdInt32(m, q) - 1)
                    /\ m[q + SIZE_OF_BSON_SIZE + RdInt32(m, q)] = 0
                    /\ ~RdCStr(m, q + SIZE_OF_BSON_SIZE).ub
                    /\ q + SIZE_OF_BSON_SIZE
                         + Len(RdCStr(m, q + SIZE_OF_BSON_SIZE).s) + 1 <= p + l
               /\ NodeType(m, p) \in {document_node, array_node} =>
                    StringsInside(m, NestedView(m, q))

(* C29: if valid() returns true, every string field of the buffer has a    *)
(* declared byte count of at least 1 whose last byte is 0x00, and every    *)
(* field has a strictly positive length, so that get<string_view> and      *)
(* get<string> on a string field read only bytes of that field.            *)
C29_ValidStringsTerminated ==
  vst.pc = "done" /\ DocValid(mem, reader) = "true" => StringsInside(mem, reader)

(* valid() has returned true on a buffer whose first field is a string     *)
(* declaring two bytes, the second of which is not 0x00                    *)
C29_UnterminatedStringAccepted ==
  /\ vst.pc = "done" /\ vst.result = "true"
  /\ DocValid(mem, reader) = "true"
  /\ NodeType(mem, 4) = string_node
  /\ RdInt32(mem, PayloadOffset(mem, 4)) = 2
  /\ mem[PayloadOffset(mem, 4) + SIZE_OF_BSON_SIZE + 2] # 0

(* the keys of the fields of the buffer the reader is over *)
FieldKeys ==
  LET f == ReaderFields(mem, reader)
  IN  IF f.st = "ok" THEN {NodeKey(mem, f.ret[n]) : n \in 1..Len(f.ret)} ELSE {}

(* get<T>(key) on the builder document d has the outcome of get<T>(key) on *)
(* the reader: the same exception, or the same value                       *)
GetsAgree(d, key, T) ==
  LET b == BuilderGet(d, key, T)
      r == ReaderGet(mem, reader, key, T)
  IN  /\ b.st = r.st
      /\ b.st = "ok" =>
           IF T = Scalar THEN b.ret = r.ret ELSE Same(mem, r, d[key])

(* C30: the builder and the reader agree on every key of a valid buffer,   *)
(* duplicate keys included.  For a buffer on which valid() is true, the    *)
(* builder document constructed from it returns for every key k and type T *)
(* the outcome of the reader's get<T>(k): the value, BadCast or            *)
(* OutOfRange; with duplicate keys both use the first occurrence, and the  *)
(* builder's size() is the number of distinct keys.                        *)
C30_BuilderAgreesWithReader ==
  res.op = "deserialize" /\ DocValid(mem, reader) = "true" =>
    /\ res.out.st = "ok"
    /\ \A key \in Keys \cup FieldKeys, T \in QueryTypes :
         GetsAgree(res.out.ret, key, T)
    /\ DocSize(res.out.ret) = Cardinality(FieldKeys)

(* the buffer holds the binary field "aa" with size -1; valid() is true,   *)
(* the reader's get<Binary>("aa") returns, and constructing the builder    *)
(* document ends the program                                               *)
C30_ReaderReturnsBuilderEnds ==
  /\ res.op = "deserialize"
  /\ DocValid(mem, reader) = "true"
  /\ FieldKeys = {<<97, 97>>}
  /\ ReaderGet(mem, reader, <<97, 97>>, binary_node).st = "ok"
  /\ ReaderGet(mem, reader, <<97, 97>>, binary_node).ret.size = -1
  /\ res.out.st = "crash"

============================================================================
